---------------------------- MODULE Spec2Model ----------------------------
(***************************************************************************)
(* Model of the startup revenue tracker (minudri/sourcerer).               *)
(*                                                                         *)
(* Texts are sequences of one-character strings, so the regular            *)
(* expressions of Config.REVENUE_PATTERNS and of RevenueAnalyzer are       *)
(* matched character by character, with the backtracking order of         *)
(* Python's re module.  Amounts are exact rationals [n, d] (n / d          *)
(* millions); a record with d = 0 stands for Python's None.                *)
(***************************************************************************)
EXTENDS Integers, Sequences, FiniteSets, TLC

(***************************************************************************)
(* Characters and str methods                                              *)
(***************************************************************************)
UPPERCASE == <<"A","B","C","D","E","F","G","H","I","J","K","L","M",
               "N","O","P","Q","R","S","T","U","V","W","X","Y","Z">>
LOWERCASE == <<"a","b","c","d","e","f","g","h","i","j","k","l","m",
               "n","o","p","q","r","s","t","u","v","w","x","y","z">>
UpperSet == {UPPERCASE[k] : k \in 1..26}
LowerSet == {LOWERCASE[k] : k \in 1..26}
Digit == {"0","1","2","3","4","5","6","7","8","9"}
Space == {" ", "\n", "\t"}

ToLower == [c \in UpperSet |-> LOWERCASE[CHOOSE k \in 1..26 : UPPERCASE[k] = c]]
ToUpper == [c \in LowerSet |-> UPPERCASE[CHOOSE k \in 1..26 : LOWERCASE[k] = c]]

\* str.lower() on one character
LowerChar(c) == IF c \in UpperSet THEN ToLower[c] ELSE c

\* str.upper() on one character
UpperChar(c) == IF c \in LowerSet THEN ToUpper[c] ELSE c

\* str.lower()
Lower(s) == [i \in 1..Len(s) |-> LowerChar(s[i])]

\* the character at 1-based index i, "" outside the text
CharAt(t, i) == IF i \in 1..Len(t) THEN t[i] ELSE ""

\* `sub in s` for strings
Contains(s, sub) ==
    \E i \in 1..(Len(s) + 1) :
        /\ i + Len(sub) - 1 <= Len(s)
        /\ \A j \in 1..Len(sub) : s[i + j - 1] = sub[j]

(***************************************************************************)
(* Regular expressions: a pattern is a sequence of elements                *)
(*   lit  a literal string            cls  one character of a class        *)
(*   rep  class{min,} (greedy)        alt  ordered alternatives            *)
(*   star (body)* (greedy)            open/close  a capture group          *)
(*   wb   \b                                                               *)
(***************************************************************************)
Lit(s) == [k |-> "lit", s |-> s]
Cls(S) == [k |-> "cls", set |-> S]
Rep(S, min) == [k |-> "rep", set |-> S, min |-> min]
Alt(alts) == [k |-> "alt", alts |-> alts]
Opt(body) == Alt(<<body, <<>>>>)
Star(body) == [k |-> "star", body |-> body]
Grp(g, body) == <<[k |-> "open", g |-> g]>> \o body \o <<[k |-> "close", g |-> g]>>
WordB == [k |-> "wb"]
WS0 == Rep(Space, 0)
WS1 == Rep(Space, 1)

NoCaps == [amount |-> <<0, 0>>, unit |-> <<0, 0>>, type |-> <<0, 0>>, g1 |-> <<0, 0>>]
NoMatch == [ok |-> FALSE, start |-> 0, end |-> 0, caps |-> NoCaps]

\* whether character c is in class S; under re.IGNORECASE either case counts
ClassHas(S, c, ic) ==
    \/ c \in S
    \/ ic /\ (LowerChar(c) \in S \/ UpperChar(c) \in S)

LitAt(s, t, i, ic) ==
    /\ i + Len(s) - 1 <= Len(t)
    /\ \A j \in 1..Len(s) :
          IF ic THEN LowerChar(t[i + j - 1]) = LowerChar(s[j]) ELSE t[i + j - 1] = s[j]

\* \w
IsWordChar(c) == c \in UpperSet \cup LowerSet \cup Digit \cup {"_"}

RECURSIVE RunLen(_, _, _, _)
\* the number of consecutive characters of class S from index i
RunLen(S, t, i, ic) ==
    IF i <= Len(t) /\ ClassHas(S, t[i], ic) THEN 1 + RunLen(S, t, i + 1, ic) ELSE 0

RECURSIVE Match(_, _, _, _, _)
RECURSIVE MatchRep(_, _, _, _, _, _, _)
RECURSIVE MatchAlt(_, _, _, _, _, _, _)

\* the first successful way (in backtracking order) to match elements els at
\* index i of t; end is the index after the match
Match(els, t, i, caps, ic) ==
    IF Len(els) = 0 THEN [ok |-> TRUE, start |-> 0, end |-> i, caps |-> caps]
    ELSE LET e == Head(els)
             rest == Tail(els)
         IN CASE e.k = "lit" ->
                   IF LitAt(e.s, t, i, ic)
                   THEN Match(rest, t, i + Len(e.s), caps, ic) ELSE NoMatch
              [] e.k = "cls" ->
                   IF i <= Len(t) /\ ClassHas(e.set, t[i], ic)
                   THEN Match(rest, t, i + 1, caps, ic) ELSE NoMatch
              [] e.k = "rep" ->
                   MatchRep(rest, t, i, RunLen(e.set, t, i, ic), e.min, caps, ic)
              [] e.k = "alt" -> MatchAlt(e.alts, 1, rest, t, i, caps, ic)
              [] e.k = "star" ->
                   LET more == Match(e.body \o els, t, i, caps, ic)
                   IN IF more.ok THEN more ELSE Match(rest, t, i, caps, ic)
              [] e.k = "open" ->
                   Match(rest, t, i, [caps EXCEPT ![e.g] = <<i, i>>], ic)
              [] e.k = "close" ->
                   Match(rest, t, i, [caps EXCEPT ![e.g] = <<caps[e.g][1], i>>], ic)
              [] e.k = "wb" ->
                   IF IsWordChar(CharAt(t, i - 1)) # IsWordChar(CharAt(t, i))
                   THEN Match(rest, t, i, caps, ic) ELSE NoMatch

\* greedy repetition: n characters first, then fewer, down to min
MatchRep(rest, t, i, n, min, caps, ic) ==
    IF n < min THEN NoMatch
    ELSE LET r == Match(rest, t, i + n, caps, ic)
         IN IF r.ok THEN r ELSE MatchRep(rest, t, i, n - 1, min, caps, ic)

\* alternatives in the order written
MatchAlt(alts, a, rest, t, i, caps, ic) ==
    IF a > Len(alts) THEN NoMatch
    ELSE LET r == Match(alts[a] \o rest, t, i, caps, ic)
         IN IF r.ok THEN r ELSE MatchAlt(alts, a + 1, rest, t, i, caps, ic)

\* the literal texts one of which element e must match, {} when e is not a
\* literal or an alternation of literals
LitTexts(e) ==
    IF e.k = "lit" THEN {e.s}
    ELSE IF e.k = "alt" /\ \A a \in 1..Len(e.alts) : Len(e.alts[a]) = 1 /\ e.alts[a][1].k = "lit"
    THEN {e.alts[a][1].s : a \in 1..Len(e.alts)}
    ELSE {}

\* every match of pat contains one of these texts: those of the first
\* mandatory literal element of the pattern ({} when it has none)
RequiredLits(pat) ==
    LET idx == {j \in 1..Len(pat) : LitTexts(pat[j]) # {}}
    IN IF idx = {} THEN {}
       ELSE LitTexts(pat[CHOOSE j \in idx : \A j2 \in idx : j <= j2])

\* a necessary condition for pat to match at or after pos
CanMatch(pat, t, pos, ic) ==
    \/ RequiredLits(pat) = {}
    \/ \E s \in RequiredLits(pat) : \E i \in pos..Len(t) : LitAt(s, t, i, ic)

\* of the matches found at the candidate starts, the one that starts first
Leftmost(found) ==
    IF found = {} THEN NoMatch
    ELSE CHOOSE r \in found : \A q \in found : r.start <= q.start

\* the match at the leftmost start >= pos
SearchFrom(pat, t, pos, ic) ==
    Leftmost({r \in {[Match(pat, t, p, NoCaps, ic) EXCEPT !.start = p] : p \in pos..Len(t)} : r.ok})

\* pattern.search(text, pos); a text that lacks the pattern's required
\* literal has no match and is not scanned
Search(pat, t, pos, ic) ==
    IF CanMatch(pat, t, pos, ic) THEN SearchFrom(pat, t, pos, ic) ELSE NoMatch

RECURSIVE FindIter(_, _, _, _)
\* pattern.finditer(text): the non-overlapping matches, left to right
FindIter(pat, t, pos, ic) ==
    LET m == Search(pat, t, pos, ic)
    IN IF m.ok THEN <<m>> \o FindIter(pat, t, m.end, ic) ELSE <<>>

\* match.group(g)
Group(t, m, g) == SubSeq(t, m.caps[g][1], m.caps[g][2] - 1)

\* match.group(0)
Whole(t, m) == SubSeq(t, m.start, m.end - 1)


(***************************************************************************)
(* Config.REVENUE_PATTERNS (compiled with re.IGNORECASE)                   *)
(***************************************************************************)
\* \d+(?:,\d{3})*(?:\.\d+)?
AMOUNT ==
    Grp("amount", <<Rep(Digit, 1),
                    Star(<<Lit(<<",">>), Cls(Digit), Cls(Digit), Cls(Digit)>>),
                    Opt(<<Lit(<<".">>), Rep(Digit, 1)>>)>>)

\* (?P<unit>million|M|mn)
UNIT_MILLION ==
    Grp("unit", <<Alt(<< <<Lit(<<"m","i","l","l","i","o","n">>)>>, <<Lit(<<"M">>)>>, <<Lit(<<"m","n">>)>> >>)>>)

\* (?P<unit>billion)
UNIT_BILLION == Grp("unit", <<Lit(<<"b","i","l","l","i","o","n">>)>>)

\* a type group that also takes the word after a funding amount
TYPE_ANY_OrSeries ==
    Grp("type", <<Alt(<< <<Lit(<<"r","e","v","e","n","u","e">>)>>,
                         <<Lit(<<"A","R","R">>)>>,
                         <<Lit(<<"b","o","o","k","i","n","g","s">>)>>,
                         <<Lit(<<"s","a","l","e","s">>)>>,
                         <<Lit(<<"S","e","r","i","e","s">>)>> >>)>>)

\* (?P<type>revenue|ARR|annual\s*recurring\s*revenue|bookings|sales)
TYPE_ANY ==
    Grp("type", <<Alt(<< <<Lit(<<"r","e","v","e","n","u","e">>)>>,
                         <<Lit(<<"A","R","R">>)>>,
                         <<Lit(<<"a","n","n","u","a","l">>), WS0, Lit(<<"r","e","c","u","r","r","i","n","g">>), WS0, Lit(<<"r","e","v","e","n","u","e">>)>>,
                         <<Lit(<<"b","o","o","k","i","n","g","s">>)>>,
                         <<Lit(<<"s","a","l","e","s">>)>> >>)>>)

\* (?:in\s*)?
OPT_IN == Opt(<<Lit(<<"i","n">>), WS0>>)

\* (?:dollar|USD)?
OPT_CURRENCY == Opt(<<Alt(<< <<Lit(<<"d","o","l","l","a","r">>)>>, <<Lit(<<"U","S","D">>)>> >>)>>)

\* (?:of|reached|hit|generated|reported)?
OPT_VERB ==
    Opt(<<Alt(<< <<Lit(<<"o","f">>)>>, <<Lit(<<"r","e","a","c","h","e","d">>)>>, <<Lit(<<"h","i","t">>)>>, <<Lit(<<"g","e","n","e","r","a","t","e","d">>)>>, <<Lit(<<"r","e","p","o","r","t","e","d">>)>> >>)>>)

\* \$<amount>\s*<unit>\s*(?:in\s*)?<type>
DollarFirst(unit) ==
    <<Lit(<<"$">>)>> \o AMOUNT \o <<WS0>> \o unit \o <<WS0, OPT_IN>> \o TYPE_ANY

\* <amount>\s*<unit>\s*(?:dollar|USD)?\s*(?:in\s*)?<type>
AmountFirst(unit) ==
    AMOUNT \o <<WS0>> \o unit \o <<WS0, OPT_CURRENCY, WS0, OPT_IN>> \o TYPE_ANY

\* (?P<type>kind)\s*(?:of|...)?\s*\$?<amount>\s*(?P<unit>million|M|mn)
KeywordFirst(kind) ==
    Grp("type", <<Lit(kind)>>) \o <<WS0, OPT_VERB, WS0, Opt(<<Lit(<<"$">>)>>)>>
        \o AMOUNT \o <<WS0>> \o UNIT_MILLION

\* the list with the keyword-first patterns moved ahead of the others
REVENUE_PATTERNS_KeywordsAhead ==
    << KeywordFirst(<<"r","e","v","e","n","u","e">>),
       KeywordFirst(<<"A","R","R">>),
       KeywordFirst(<<"b","o","o","k","i","n","g","s">>),
       DollarFirst(UNIT_MILLION),
       AmountFirst(UNIT_MILLION),
       DollarFirst(UNIT_BILLION),
       AmountFirst(UNIT_BILLION) >>

REVENUE_PATTERNS ==
    << DollarFirst(UNIT_MILLION),
       AmountFirst(UNIT_MILLION),
       KeywordFirst(<<"r","e","v","e","n","u","e">>),
       KeywordFirst(<<"A","R","R">>),
       KeywordFirst(<<"b","o","o","k","i","n","g","s">>),
       DollarFirst(UNIT_BILLION),
       AmountFirst(UNIT_BILLION) >>

(***************************************************************************)
(* RevenueAnalyzer._extract_revenue_info                                   *)
(***************************************************************************)
None == [n |-> 0, d |-> 0]

\* re.sub(r'[,$]', '', amount_str)
StripSeparators(s) == SelectSeq(s, LAMBDA c : c \notin {",", "$"})

RECURSIVE DigitsValue(_)
\* the number a string of digits denotes
DigitsValue(s) ==
    IF Len(s) = 0 THEN 0
    ELSE 10 * DigitsValue(SubSeq(s, 1, Len(s) - 1))
           + (CHOOSE v \in 0..9 : <<"0","1","2","3","4","5","6","7","8","9">>[v + 1] = s[Len(s)])

RECURSIVE Pow10(_)
Pow10(k) == IF k = 0 THEN 1 ELSE 10 * Pow10(k - 1)

\* float(amount_str): digits with at most one point; anything else raises ValueError
Float(s) ==
    LET dots == {i \in 1..Len(s) : s[i] = "."}
        point == IF dots = {} THEN Len(s) + 1 ELSE CHOOSE i \in dots : TRUE
        whole == SubSeq(s, 1, point - 1)
        frac == SubSeq(s, point + 1, Len(s))
        wellFormed == /\ Cardinality(dots) <= 1
                      /\ \A i \in 1..Len(s) : s[i] \in Digit \cup {"."}
                      /\ Len(whole) + Len(frac) > 0
    IN IF wellFormed
       THEN [raised |-> FALSE,
             value |-> [n |-> DigitsValue(whole) * Pow10(Len(frac)) + DigitsValue(frac),
                        d |-> Pow10(Len(frac))]]
       ELSE [raised |-> TRUE, value |-> None]

\* amount >= Config.REVENUE_THRESHOLD
AtLeast(amount, threshold) == amount.n >= threshold * amount.d

\* the conversion with the billion branch leaving the amount as it is
ToMillionsNoScale(amount, unit) ==
    IF Contains(unit, <<"b","i","l","l","i","o","n">>) \/ Contains(unit, <<"b">>)
    THEN amount
    ELSE IF Contains(unit, <<"m","i","l","l","i","o","n">>) \/ Contains(unit, <<"m">>)
    THEN amount
    ELSE IF Contains(unit, <<"t","h","o","u","s","a","n","d">>) \/ Contains(unit, <<"k">>)
    THEN [n |-> amount.n, d |-> amount.d * 1000]
    ELSE IF amount.n > 1000 * amount.d
    THEN [n |-> amount.n, d |-> amount.d * 1000000]
    ELSE amount

\* lines 81-91: convert to millions based on unit
ToMillions(amount, unit) ==
    IF Contains(unit, <<"b","i","l","l","i","o","n">>) \/ Contains(unit, <<"b">>)
    THEN [n |-> amount.n * 1000, d |-> amount.d]
    ELSE IF Contains(unit, <<"m","i","l","l","i","o","n">>) \/ Contains(unit, <<"m">>)
    THEN amount
    ELSE IF Contains(unit, <<"t","h","o","u","s","a","n","d">>) \/ Contains(unit, <<"k">>)
    THEN [n |-> amount.n, d |-> amount.d * 1000]
    ELSE IF amount.n > 1000 * amount.d
    THEN [n |-> amount.n, d |-> amount.d * 1000000]
    ELSE amount

\* lines 72-91 for one match: the kind and the amount in millions
ConvertMatch(t, m) ==
    LET amount_str == Group(t, m, "amount")
        unit == IF Len(Group(t, m, "unit")) > 0 THEN Lower(Group(t, m, "unit")) ELSE <<>>
        revenue_type == Group(t, m, "type")
        parsed == Float(StripSeparators(amount_str))
    IN [raised |-> parsed.raised,
        type |-> revenue_type,
        amount |-> IF parsed.raised THEN None ELSE ToMillions(parsed.value, unit)]

RECURSIVE ScanMatchesNoGate(_, _, _, _)
\* the loop over one pattern's matches with the comparison of line 93 left out
ScanMatchesNoGate(t, matches, k, threshold) ==
    IF k > Len(matches) THEN <<>>
    ELSE LET c == ConvertMatch(t, matches[k])
         IN IF ~c.raised
            THEN <<c.type, c.amount>>
            ELSE ScanMatchesNoGate(t, matches, k + 1, threshold)

RECURSIVE ScanMatches(_, _, _, _)
\* lines 70-99: the loop over one pattern's matches
ScanMatches(t, matches, k, threshold) ==
    IF k > Len(matches) THEN <<>>
    ELSE LET c == ConvertMatch(t, matches[k])
         IN IF ~c.raised /\ AtLeast(c.amount, threshold)
            THEN <<c.type, c.amount>>
            ELSE ScanMatches(t, matches, k + 1, threshold)

RECURSIVE ScanPatternsStopAtMatch(_, _, _)
\* the loop over the patterns ending at the first pattern that matches at
\* all, whether or not one of its matches was accepted
ScanPatternsStopAtMatch(t, p, threshold) ==
    IF p > Len(REVENUE_PATTERNS) THEN <<>>
    ELSE LET matches == FindIter(REVENUE_PATTERNS[p], t, 1, TRUE)
         IN IF Len(matches) > 0 THEN ScanMatches(t, matches, 1, threshold)
            ELSE ScanPatternsStopAtMatch(t, p + 1, threshold)

RECURSIVE ScanPatterns(_, _, _)
\* lines 68-101: the loop over the patterns; <<>> is None
ScanPatterns(t, p, threshold) ==
    IF p > Len(REVENUE_PATTERNS) THEN <<>>
    ELSE LET found == ScanMatches(t, FindIter(REVENUE_PATTERNS[p], t, 1, TRUE), 1, threshold)
         IN IF Len(found) > 0 THEN found ELSE ScanPatterns(t, p + 1, threshold)

extract_revenue_info(text, threshold) == ScanPatterns(text, 1, threshold)


(***************************************************************************)
(* RevenueAnalyzer.company_patterns and _extract_company_name              *)
(***************************************************************************)
\* ([A-Z][a-z]+(?:\s+[A-Z][a-z]+)*)
CAP_WORDS ==
    <<Cls(UpperSet), Rep(LowerSet, 1), Star(<<WS1, Cls(UpperSet), Rep(LowerSet, 1)>>)>>

\* the three patterns, in the order of the list; compiled with re.IGNORECASE
company_patterns ==
    << <<Alt(<< <<Lit(<<"s","t","a","r","t","u","p">>)>>, <<Lit(<<"c","o","m","p","a","n","y">>)>> >>), WS1>> \o Grp("g1", CAP_WORDS),
       Grp("g1", CAP_WORDS)
           \o <<WS1, Alt(<< <<Lit(<<"r","a","i","s","e","d">>)>>, <<Lit(<<"s","e","c","u","r","e","d">>)>>, <<Lit(<<"a","n","n","o","u","n","c","e","d">>)>> >>)>>,
       Grp("g1", CAP_WORDS)
           \o <<WS1, Alt(<< <<Lit(<<"r","e","p","o","r","t","e","d">>)>>, <<Lit(<<"g","e","n","e","r","a","t","e","d">>)>>, <<Lit(<<"p","o","s","t","e","d">>)>> >>)>> >>

\* \b[A-Z][a-z]+(?:\s+[A-Z][a-z]+)*\b, case-sensitive
cap_words_pattern == <<WordB>> \o CAP_WORDS \o <<WordB>>

stop_words ==
    {<<"T","h","e">>, <<"T","h","i","s">>, <<"T","h","a","t">>, <<"T","h","e","s","e">>, <<"T","h","o","s","e">>, <<"A">>, <<"A","n">>,
     <<"A","n","d">>, <<"B","u","t">>, <<"O","r">>, <<"S","o">>, <<"Y","e","t">>}

company_keywords == {<<"s","t","a","r","t","u","p">>, <<"c","o","m","p","a","n","y">>, <<"f","i","r","m">>, <<"c","o","r","p">>}

RECURSIVE Strip(_)
\* str.strip()
Strip(s) ==
    IF Len(s) > 0 /\ s[1] \in Space THEN Strip(Tail(s))
    ELSE IF Len(s) > 0 /\ s[Len(s)] \in Space THEN Strip(SubSeq(s, 1, Len(s) - 1))
    ELSE s

RECURSIVE Split(_)
\* str.split(): the maximal runs of non-whitespace characters
Split(s) ==
    IF Len(s) = 0 THEN <<>>
    ELSE IF s[1] \in Space THEN Split(Tail(s))
    ELSE LET n == CHOOSE k \in 1..Len(s) :
                     /\ \A j \in 1..k : s[j] \notin Space
                     /\ (k = Len(s) \/ s[k + 1] \in Space)
         IN <<SubSeq(s, 1, n)>> \o Split(SubSeq(s, n + 1, Len(s)))

RECURSIVE PrimaryCompany(_, _)
\* lines 114-119: the first pattern whose first match has more than 2
\* characters; <<>> when the loop ends without returning
PrimaryCompany(text, p) ==
    IF p > Len(company_patterns) THEN <<>>
    ELSE LET m == Search(company_patterns[p], text, 1, TRUE)
             company_name == Strip(Group(text, m, "g1"))
         IN IF m.ok /\ Len(company_name) > 2 THEN company_name
            ELSE PrimaryCompany(text, p + 1)

RECURSIVE FallbackCompanyUngated(_, _, _)
\* the loop without the test of line 133 for a keyword in the text
FallbackCompanyUngated(text, matches, k) ==
    IF k > Len(matches) THEN <<>>
    ELSE LET match == Whole(text, matches[k])
             words == Split(match)
         IN IF /\ Len(words) <= 3
               /\ ~\E w \in 1..Len(words) : words[w] \in stop_words
            THEN match
            ELSE FallbackCompanyUngated(text, matches, k + 1)

RECURSIVE FallbackCompany(_, _, _)
\* lines 129-136: the loop over cap_words_pattern.findall(text)
FallbackCompany(text, matches, k) ==
    IF k > Len(matches) THEN <<>>
    ELSE LET match == Whole(text, matches[k])
             words == Split(match)
         IN IF /\ Len(words) <= 3
               /\ ~\E w \in 1..Len(words) : words[w] \in stop_words
               /\ \E keyword \in company_keywords : Contains(Lower(text), keyword)
            THEN match
            ELSE FallbackCompany(text, matches, k + 1)

\* "" is the empty sequence
extract_company_name(text) ==
    LET primary == PrimaryCompany(text, 1)
    IN IF Len(primary) > 0 THEN primary
       ELSE FallbackCompany(text, FindIter(cap_words_pattern, text, 1, FALSE), 1)

(***************************************************************************)
(* RevenueAnalyzer.analyze_article                                         *)
(***************************************************************************)
\* the analyzed text without the title
ArticleTextContentOnly(article) == article.content

\* f"{article.title} {article.content}"
ArticleText(article) == article.title \o <<" ">> \o article.content

\* the tuple (revenue_found, revenue_amount, revenue_type, company_name)
analyze_article(article, threshold) ==
    LET text == ArticleText(article)
        revenue_info == extract_revenue_info(text, threshold)
    IN IF Len(revenue_info) > 0 /\ AtLeast(revenue_info[2], threshold)
       THEN <<TRUE, revenue_info[2], revenue_info[1], extract_company_name(text)>>
       ELSE <<FALSE, None, <<>>, <<>>>>


(***************************************************************************)
(* The analyzer applied to articles: title and content are built from      *)
(* phrases that exercise the patterns of REVENUE_PATTERNS.                 *)
(***************************************************************************)
MaxPhrases == 2

Phrases ==
    <<
       \* 1: $25 million in revenue
       <<"$","2","5"," ","m","i","l","l","i","o","n"," ","i","n"," ","r",
         "e","v","e","n","u","e">>,
       \* 2: $45 million in ARR
       <<"$","4","5"," ","m","i","l","l","i","o","n"," ","i","n"," ","A",
         "R","R">>,
       \* 3: $30 million ARR
       <<"$","3","0"," ","m","i","l","l","i","o","n"," ","A","R","R">>,
       \* 4: 30000000 in ARR
       <<"3","0","0","0","0","0","0","0"," ","i","n"," ","A","R","R">>,
       \* 5: revenue of $40 million
       <<"r","e","v","e","n","u","e"," ","o","f"," ","$","4","0"," ","m",
         "i","l","l","i","o","n">>,
       \* 6: $50M in Sales
       <<"$","5","0","M"," ","i","n"," ","S","a","l","e","s">>,
       \* 7: $2.5 billion revenue
       <<"$","2",".","5"," ","b","i","l","l","i","o","n"," ","r","e","v",
         "e","n","u","e">>,
       \* 8: ARR reached 35 mn
       <<"A","R","R"," ","r","e","a","c","h","e","d"," ","3","5"," ","m",
         "n">>,
       \* 9: bookings hit $20 million
       <<"b","o","o","k","i","n","g","s"," ","h","i","t"," ","$","2","0",
         " ","m","i","l","l","i","o","n">>,
       \* 10: $60 mn in annual recurring revenue
       <<"$","6","0"," ","m","n"," ","i","n"," ","a","n","n","u","a","l",
         " ","r","e","c","u","r","r","i","n","g"," ","r","e","v","e","n",
         "u","e">>,
       \* 11: 1,500 million USD in bookings
       <<"1",",","5","0","0"," ","m","i","l","l","i","o","n"," ","U","S",
         "D"," ","i","n"," ","b","o","o","k","i","n","g","s">>,
       \* 12: Tiny Startup raised $5 million Series A
       <<"T","i","n","y"," ","S","t","a","r","t","u","p"," ","r","a","i",
         "s","e","d"," ","$","5"," ","m","i","l","l","i","o","n"," ","S",
         "e","r","i","e","s"," ","A">>,
       \* 13: $50 million Series B funding round
       <<"$","5","0"," ","m","i","l","l","i","o","n"," ","S","e","r","i","e","s"," ","B"," ","f","u","n","d","i","n","g"," ","r","o","u","n","d">>
    >>

\* the titles an article may carry: none, or a company phrase
Titles == {<<>>, <<"A","c","m","e"," ","C","o","r","p"," ","r","e","p","o","r","t","e","d">>}

\* the values Config.REVENUE_THRESHOLD is run with (default 30)
Thresholds == {30, 45}

RECURSIVE Join(_)
\* the phrases of ps separated by single spaces
Join(ps) ==
    IF Len(ps) = 0 THEN <<>>
    ELSE IF Len(ps) = 1 THEN Phrases[ps[1]]
    ELSE Phrases[ps[1]] \o <<" ">> \o Join(Tail(ps))

\* the contents built from at most n phrases
Contents(n) ==
    {Join(ps) : ps \in UNION {[1..k -> 1..Len(Phrases)] : k \in 0..n}}

\* the articles built from at most MaxPhrases pieces, a title counting as one
Articles ==
    {[title |-> ti, content |-> co] :
        ti \in {<<>>}, co \in Contents(MaxPhrases)}
    \cup {[title |-> ti, content |-> co] :
             ti \in Titles \ {<<>>}, co \in Contents(MaxPhrases - 1)}

VARIABLES
    REVENUE_THRESHOLD,  \* Config.REVENUE_THRESHOLD
    article,            \* the Article handed to the analyzer
    apc,                \* which analyzer calls have been made on it
    revenue_info,       \* what _extract_revenue_info(article.content) returned
    analysis,           \* what analyze_article(article) returned
    feed,               \* the entries feedparser.parse returns
    page_links,         \* the links extract_article_links finds on a listing page
    db,                 \* the articles table, by url
    pc,                 \* where each scrape process is
    source_index,       \* its position in Config.NEWS_SOURCES
    patterns_left,      \* the search patterns scrape_website has yet to try
    pending,            \* the entries or links its current loop has yet to visit
    current,            \* the entry or link it is fetching
    articles,           \* the list its scrape_rss_feed / scrape_website builds
    source_articles,    \* the list its scrape_source builds
    all_articles,       \* the list its scrape_all_sources builds
    history,            \* what the processes have done to which address
    revenue_alerts,     \* the revenue_alerts table
    notified,           \* the alerts each run_scraping_job has emailed
    wire,               \* the requests and delays of its current scrape_source call
    page,               \* the page a call of get_article_content is made on
    cpc,                \* whether that call has been made
    outcome,            \* what it returned or raised
    listing,            \* the hrefs a call of extract_article_links meets
    lpc,                \* whether that call has been made
    is_running,         \* RevenueTracker.is_running
    jobs,               \* the number of jobs registered with schedule
    spc,                \* where the caller of RevenueTracker.start is
    config_valid,       \* whether Config has the required fields
    starts,             \* the number of calls of start made
    ticks,              \* the number of rounds of the main loop made
    entered             \* is_running and jobs as they were when start was called

avars == <<REVENUE_THRESHOLD, article, apc, revenue_info, analysis>>

pvars == <<feed, page_links, db, pc, source_index, patterns_left, pending, current,
           articles, source_articles, all_articles, history, revenue_alerts, notified, wire>>

cvars == <<page, cpc, outcome>>

lvars == <<listing, lpc>>

svars == <<is_running, jobs, spc, config_valid, starts, ticks, entered>>

vars == <<avars, pvars, cvars, lvars, svars>>

\* a tracker as RevenueTracker() makes it, with start not called
NoScheduler ==
    /\ is_running = FALSE
    /\ jobs = 0
    /\ spc = "unused"
    /\ config_valid = TRUE
    /\ starts = 0
    /\ ticks = 0
    /\ entered = [is_running |-> FALSE, jobs |-> 0]

(***************************************************************************)
(* The scrape processes (python main.py scrape), the feeds and pages they  *)
(* read, and the database file they share                                  *)
(***************************************************************************)
\* the most entries a feed and the most links a listing page carry
MaxEntries == 1

\* two runs of `python main.py scrape`
Procs == {"scrape_1", "scrape_2"}

\* the url of the article test_database saves, and one more
TEST_URL == "https://test.com/article"
Urls == {TEST_URL, "https://example.com/article1"}

\* the most search patterns of a source that are followed
MaxPatterns == 1

\* Config.NEWS_SOURCES: the first two sources, one with an rss_feed, each
\* with the first MaxPatterns of its search_patterns
NEWS_SOURCES ==
    << [name |-> "techcrunch", rss_feed |-> TRUE,
        search_patterns |-> SubSeq(<<"/startups/", "/funding/", "/venture/">>, 1, MaxPatterns)],
       [name |-> "business_insider", rss_feed |-> FALSE,
        search_patterns |-> SubSeq(<<"/prime/", "/tech/", "/startups/">>, 1, MaxPatterns)] >>

\* entry.title of the feed entries
ENTRY_TITLE == <<"A","c","m","e"," ","C","o","r","p"," ","r","e","p","o","r","t","e","d">>

\* published_date = None: the entry carries no published_parsed
NoDate == 0 - 1

\* datetime.now() - published_date in hours, for the entries that carry a
\* date: just published, 7 days and 12 hours ago, 8 days ago
Ages == {0, 180, 192}

\* timedelta.days of a non-negative difference of h hours
Days(h) == h \div 24

\* published_date and (datetime.now() - published_date).days > 7
TooOld(published) == published # NoDate /\ Days(published) > 7

\* a feed entry: its link, its title, and how long ago it was published
Entries == [link : Urls, title : {ENTRY_TITLE}, published : {NoDate} \cup Ages]

Feeds == UNION {[1..n -> Entries] : n \in 0..MaxEntries}

\* list(set(links)): distinct links, in any order
LinkLists ==
    {ls \in UNION {[1..n -> Urls] : n \in 0..MaxEntries} :
        \A i, j \in 1..Len(ls) : i # j => ls[i] # ls[j]}

\* the links of a feed of 21 entries
FEED_LINKS ==
    <<"https://example.com/feed/1", "https://example.com/feed/2", "https://example.com/feed/3",
      "https://example.com/feed/4", "https://example.com/feed/5", "https://example.com/feed/6",
      "https://example.com/feed/7", "https://example.com/feed/8", "https://example.com/feed/9",
      "https://example.com/feed/10", "https://example.com/feed/11", "https://example.com/feed/12",
      "https://example.com/feed/13", "https://example.com/feed/14", "https://example.com/feed/15",
      "https://example.com/feed/16", "https://example.com/feed/17", "https://example.com/feed/18",
      "https://example.com/feed/19", "https://example.com/feed/20", "https://example.com/feed/21">>

FeedUrls == {FEED_LINKS[i] : i \in 1..Len(FEED_LINKS)}

\* a feed of n entries, none in the database and none older than 7 days
FreshFeed(n) == [i \in 1..n |-> [link |-> FEED_LINKS[i], title |-> ENTRY_TITLE, published |-> 0]]

\* a feed of n entries published 8 days ago followed by one just published
StaleFeed(n) ==
    [i \in 1..(n + 1) |-> [link |-> FEED_LINKS[i], title |-> ENTRY_TITLE,
                           published |-> IF i <= n THEN 192 ELSE 0]]

\* the most content selectors of get_article_content that are tried
MaxSelectors == 2

\* content_selectors (lines 281-289), the first MaxSelectors of them
content_selectors ==
    SubSeq(<<".article-content", ".post-content", ".entry-content", ".content", "article",
             ".story-body", ".article-body">>, 1, MaxSelectors)

\* a page as get_article_content meets it: whether newspaper's download and
\* parse fail and the text they give, whether session.get / raise_for_status
\* and BeautifulSoup fail, the stripped text of the first element of each
\* content selector (<<>> when it selects nothing, <<text>> otherwise) and
\* the stripped text of the whole page
PageWith(text) ==
    [rich_failed |-> TRUE, rich_text |-> <<>>, status |-> "ok", markup |-> "ok",
     selected |-> [k \in 1..Len(content_selectors) |-> IF k = 1 THEN <<text>> ELSE <<>>],
     body |-> text]

\* a page whose download fails
FailedPage == [PageWith(<<>>) EXCEPT !.status = "error"]

\* the page at each address: the download of the test address fails
PAGES ==
    [u \in Urls \cup FeedUrls |-> IF u = TEST_URL THEN FailedPage ELSE PageWith(Phrases[2])]

\* no call of get_article_content is under way
NoPage == FailedPage

NoOutcome == [raised |-> FALSE, exc |-> "", value |-> <<>>]

\* no process has started and the database file is new
NoArticles == [u \in {} |-> <<>>]

AnalyzerInit ==
    /\ REVENUE_THRESHOLD \in Thresholds
    /\ article \in Articles
    /\ apc = "ready"
    /\ revenue_info = <<>>
    /\ analysis = <<>>
    /\ feed = <<>>
    /\ page_links = <<>>
    /\ db = NoArticles
    /\ pc = [p \in Procs |-> "idle"]
    /\ source_index = [p \in Procs |-> 1]
    /\ patterns_left = [p \in Procs |-> <<>>]
    /\ pending = [p \in Procs |-> <<>>]
    /\ current = [p \in Procs |-> <<>>]
    /\ articles = [p \in Procs |-> <<>>]
    /\ source_articles = [p \in Procs |-> <<>>]
    /\ all_articles = [p \in Procs |-> <<>>]
    /\ history = {}
    /\ revenue_alerts = {}
    /\ notified = [p \in Procs |-> {}]
    /\ wire = [p \in Procs |-> <<>>]
    /\ page = NoPage
    /\ cpc = "unused"
    /\ outcome = NoOutcome
    /\ listing = <<>>
    /\ lpc = "unused"
    /\ NoScheduler

\* analyzer._extract_revenue_info(article.content)
CallExtractRevenueInfo ==
    /\ apc = "ready"
    /\ revenue_info' = extract_revenue_info(article.content, REVENUE_THRESHOLD)
    /\ apc' = "extracted"
    /\ UNCHANGED <<REVENUE_THRESHOLD, article, analysis, pvars, cvars, lvars, svars>>

\* analyzer.analyze_article(article)
CallAnalyzeArticle ==
    /\ apc = "extracted"
    /\ analysis' = analyze_article(article, REVENUE_THRESHOLD)
    /\ apc' = "analyzed"
    /\ UNCHANGED <<REVENUE_THRESHOLD, article, revenue_info, pvars, cvars, lvars, svars>>

AnalyzerNext ==
    \/ CallExtractRevenueInfo
    \/ CallAnalyzeArticle

AnalyzerSpec == AnalyzerInit /\ [][AnalyzerNext]_vars

(***************************************************************************)
(* The analyzer applied to articles that name, or do not name, a company   *)
(* next to a disclosure of $45 million in ARR                              *)
(***************************************************************************)
\* titles: none, a name of three words, a name after a stop word, a name of
\* four words, a name in lower case, a name of one word
AttributorTitles ==
    {<<>>,
     \* Acme Rocket Labs
     <<"A","c","m","e"," ","R","o","c","k","e","t"," ","L","a","b","s">>,
     \* The Acme
     <<"T","h","e"," ","A","c","m","e">>,
     \* Alpha Beta Gamma Delta
     <<"A","l","p","h","a"," ","B","e","t","a"," ","G","a","m","m","a"," ","D","e","l","t","a">>,
     \* acme labs
     <<"a","c","m","e"," ","l","a","b","s">>,
     \* Nova
     <<"N","o","v","a">>}

\* what precedes the disclosure in the content
AttributorContexts ==
    {<<>>,
     \* a firm with
     <<"a"," ","f","i","r","m"," ","w","i","t","h">>,
     \* confirmed
     <<"c","o","n","f","i","r","m","e","d">>,
     \* Corp had
     <<"C","o","r","p"," ","h","a","d">>,
     \* And the company:
     <<"A","n","d"," ","t","h","e"," ","c","o","m","p","a","n","y",":">>,
     \* startup Zeta had
     <<"s","t","a","r","t","u","p"," ","Z","e","t","a"," ","h","a","d">>}

AttributorArticles ==
    {[title |-> ti, content |-> IF cx = <<>> THEN Phrases[2] ELSE cx \o <<" ">> \o Phrases[2]] :
        ti \in AttributorTitles, cx \in AttributorContexts}

AttributorInit ==
    /\ REVENUE_THRESHOLD \in Thresholds
    /\ article \in AttributorArticles
    /\ apc = "ready"
    /\ revenue_info = <<>>
    /\ analysis = <<>>
    /\ feed = <<>>
    /\ page_links = <<>>
    /\ db = NoArticles
    /\ pc = [p \in Procs |-> "idle"]
    /\ source_index = [p \in Procs |-> 1]
    /\ patterns_left = [p \in Procs |-> <<>>]
    /\ pending = [p \in Procs |-> <<>>]
    /\ current = [p \in Procs |-> <<>>]
    /\ articles = [p \in Procs |-> <<>>]
    /\ source_articles = [p \in Procs |-> <<>>]
    /\ all_articles = [p \in Procs |-> <<>>]
    /\ history = {}
    /\ revenue_alerts = {}
    /\ notified = [p \in Procs |-> {}]
    /\ wire = [p \in Procs |-> <<>>]
    /\ page = NoPage
    /\ cpc = "unused"
    /\ outcome = NoOutcome
    /\ listing = <<>>
    /\ lpc = "unused"
    /\ NoScheduler

AttributorSpec == AttributorInit /\ [][AnalyzerNext]_vars


(***************************************************************************)
(* Properties of the analyzer                                              *)
(***************************************************************************)
SameAmount(a, b) == a.n * b.d = b.n * a.d

Millions(k) == [n |-> k, d |-> 1]

\* the conversions of the matches of one pattern in t, in text order
ConversionsOf(pat, t) ==
    LET ms == FindIter(pat, t, 1, TRUE)
    IN [k \in 1..Len(ms) |-> ConvertMatch(t, ms[k])]

RECURSIVE ConversionsFrom(_, _)
\* the conversions of all matches in t, by pattern index, then text position
ConversionsFrom(t, p) ==
    IF p > Len(REVENUE_PATTERNS) THEN <<>>
    ELSE ConversionsOf(REVENUE_PATTERNS[p], t) \o ConversionsFrom(t, p + 1)

Passes(c, threshold) == ~c.raised /\ AtLeast(c.amount, threshold)

\* the conversions in cs that pass the threshold, in the order of cs
Passing(cs, threshold) == SelectSeq(cs, LAMBDA c : Passes(c, threshold))

\* C1: the extractor never returns an amount below REVENUE_THRESHOLD,
\* analyze_article reports revenue_found only with an amount at or above it,
\* and a text whose matches are all below it yields no signal; '$25 million
\* in revenue' under threshold 30 yields none.
C1_ThresholdGate ==
    /\ apc # "ready" =>
          revenue_info = <<>> \/ AtLeast(revenue_info[2], REVENUE_THRESHOLD)
    /\ apc = "analyzed" =>
          (analysis[1] => AtLeast(analysis[2], REVENUE_THRESHOLD))
    /\ apc = "extracted" /\ article.content = Phrases[1] /\ REVENUE_THRESHOLD = 30 =>
          revenue_info = <<>>

\* '$25 million in revenue' alone has been analyzed under threshold 30
C1_Witness ==
    /\ apc = "analyzed"
    /\ article = [title |-> <<>>, content |-> Phrases[1]]
    /\ REVENUE_THRESHOLD = 30
    /\ Len(ConversionsFrom(article.content, 1)) > 0
    /\ Passing(ConversionsFrom(article.content, 1), REVENUE_THRESHOLD) = <<>>
    /\ revenue_info = <<>>
    /\ analysis[1] = FALSE

\* C5: when a text has a passing match of the dollar-first million pattern
\* (pattern 1) and a passing match of the revenue keyword-first pattern
\* (pattern 3), the result is the first passing pattern-1 match, wherever the
\* pattern-3 match lies.
C5_PatternPriority ==
    apc = "extracted" =>
        LET dollar == Passing(ConversionsOf(DollarFirst(UNIT_MILLION), article.content),
                              REVENUE_THRESHOLD)
            keyword == Passing(ConversionsOf(KeywordFirst(<<"r","e","v","e","n","u","e">>),
                                             article.content), REVENUE_THRESHOLD)
        IN Len(dollar) > 0 /\ Len(keyword) > 0 =>
              revenue_info = <<dollar[1].type, dollar[1].amount>>

\* 'revenue of $40 million $50M in Sales': the keyword-first match comes
\* first in the text and the dollar-first match is returned
C5_Witness ==
    /\ apc = "extracted"
    /\ REVENUE_THRESHOLD = 30
    /\ article.content = Phrases[5] \o <<" ">> \o Phrases[6]
    /\ LET d == Search(DollarFirst(UNIT_MILLION), article.content, 1, TRUE)
           k == Search(KeywordFirst(<<"r","e","v","e","n","u","e">>), article.content, 1, TRUE)
       IN d.ok /\ k.ok /\ k.start < d.start
    /\ revenue_info = <<<<"S","a","l","e","s">>, Millions(50)>>

\* C6: the result is the first match, by pattern index and then by text
\* position, whose amount parses and is at or above the threshold; matches
\* that do not pass are skipped, and the result is None exactly when no
\* match passes.
C6_FirstAccepted ==
    apc = "extracted" =>
        LET passing == Passing(ConversionsFrom(article.content, 1), REVENUE_THRESHOLD)
        IN IF Len(passing) = 0 THEN revenue_info = <<>>
           ELSE revenue_info = <<passing[1].type, passing[1].amount>>

\* the first match in scan order is below the threshold and a match of a
\* later pattern is returned
C6_Witness ==
    /\ apc = "extracted"
    /\ LET first == ConversionsOf(REVENUE_PATTERNS[1], article.content)
       IN Len(first) > 0 /\ Passing(first, REVENUE_THRESHOLD) = <<>>
    /\ revenue_info # <<>>

\* the number the amount group of match m denotes, separators stripped
CapturedNumber(t, m) == Float(StripSeparators(Group(t, m, "amount"))).value

\* the amount in millions the unit token of match m calls for
ExpectedAmount(t, m) ==
    LET unit == Lower(Group(t, m, "unit"))
        number == CapturedNumber(t, m)
    IN IF unit = <<"b","i","l","l","i","o","n">>
       THEN [n |-> number.n * 1000, d |-> number.d]
       ELSE number

RECURSIVE MatchesFrom(_, _)
\* all matches in t, by pattern index, then text position
MatchesFrom(t, p) ==
    IF p > Len(REVENUE_PATTERNS) THEN <<>>
    ELSE FindIter(REVENUE_PATTERNS[p], t, 1, TRUE) \o MatchesFrom(t, p + 1)

\* C7: the returned amount is the captured number times 1000 when the unit
\* token is 'billion' and the captured number itself when it is 'million',
\* 'M' or 'mn' in any letter case, separators stripped; '$2.5 billion
\* revenue' yields 2500.
C7_UnitNormalization ==
    /\ apc = "extracted" =>
          LET t == article.content
              accepted == SelectSeq(MatchesFrom(t, 1),
                              LAMBDA m : AtLeast(ExpectedAmount(t, m), REVENUE_THRESHOLD))
          IN /\ \A k \in 1..Len(accepted) :
                    Lower(Group(t, accepted[k], "unit")) \in
                        {<<"b","i","l","l","i","o","n">>, <<"m","i","l","l","i","o","n">>,
                         <<"m">>, <<"m","n">>}
             /\ Len(accepted) > 0 =>
                    /\ revenue_info # <<>>
                    /\ SameAmount(revenue_info[2], ExpectedAmount(t, accepted[1]))
    /\ apc = "extracted" /\ article.content = Phrases[7] =>
          /\ revenue_info # <<>>
          /\ revenue_info[1] = <<"r","e","v","e","n","u","e">>
          /\ SameAmount(revenue_info[2], Millions(2500))

\* '$2.5 billion revenue' has been extracted as 2500 and, in another
\* article, '1,500 million USD in bookings' as 1500
C7_Witness ==
    /\ apc = "extracted"
    /\ \/ /\ article.content = Phrases[7]
          /\ revenue_info # <<>> /\ SameAmount(revenue_info[2], Millions(2500))
       \/ /\ article.content = Phrases[11]
          /\ revenue_info # <<>> /\ SameAmount(revenue_info[2], Millions(1500))

\* C8: '$30 million ARR' and the unit-less '30000000 in ARR' both yield the
\* amount 30 (threshold 30).
C8_UnitIdempotence ==
    apc = "extracted" /\ REVENUE_THRESHOLD = 30 /\ article.content \in {Phrases[3], Phrases[4]} =>
        revenue_info # <<>> /\ SameAmount(revenue_info[2], Millions(30))

\* C9: the kind of every returned signal is one of revenue, ARR, bookings,
\* sales, and its amount is not negative.
C9_KindDomain ==
    apc # "ready" /\ revenue_info # <<>> =>
        /\ revenue_info[1] \in {<<"r","e","v","e","n","u","e">>, <<"A","R","R">>,
                                <<"b","o","o","k","i","n","g","s">>, <<"s","a","l","e","s">>}
        /\ revenue_info[2].n >= 0 /\ revenue_info[2].d > 0

\* C10: 'Acme Corp reported $<a> million [in] ARR' with a at or above the
\* threshold is analyzed to (True, a, 'ARR', 'Acme Corp'); with a = 45 and
\* threshold 30 to (True, 45, 'ARR', 'Acme Corp').
C10_EndToEnd ==
    /\ apc = "analyzed"
       /\ article.title = <<"A","c","m","e"," ","C","o","r","p"," ","r","e","p","o","r","t","e","d">>
       /\ article.content \in {Phrases[2], Phrases[3]}
       /\ AtLeast(CapturedNumber(article.content,
                      Search(DollarFirst(UNIT_MILLION), article.content, 1, TRUE)),
                  REVENUE_THRESHOLD)
       => analysis = <<TRUE,
                       CapturedNumber(article.content,
                           Search(DollarFirst(UNIT_MILLION), article.content, 1, TRUE)),
                       <<"A","R","R">>,
                       <<"A","c","m","e"," ","C","o","r","p">> >>
    /\ apc = "analyzed"
       /\ article.title = <<"A","c","m","e"," ","C","o","r","p"," ","r","e","p","o","r","t","e","d">>
       /\ article.content = Phrases[2]
       /\ REVENUE_THRESHOLD = 30
       => analysis = <<TRUE, Millions(45), <<"A","R","R">>, <<"A","c","m","e"," ","C","o","r","p">> >>

\* 'Acme Corp reported $45 million in ARR' has been analyzed under threshold 30
C10_Witness ==
    /\ apc = "analyzed"
    /\ REVENUE_THRESHOLD = 30
    /\ ArticleText(article) =
          <<"A","c","m","e"," ","C","o","r","p"," ","r","e","p","o","r","t","e","d"," ",
            "$","4","5"," ","m","i","l","l","i","o","n"," ","i","n"," ","A","R","R">>
    /\ analysis[1] = TRUE
    /\ analysis[4] = <<"A","c","m","e"," ","C","o","r","p">>

\* the disclosure kinds, in lower case
KindTokens == {<<"r","e","v","e","n","u","e">>, <<"a","r","r">>, <<"b","o","o","k","i","n","g","s">>, <<"s","a","l","e","s">>}

HasKindToken(t) == \E k \in KindTokens : Contains(Lower(t), k)

\* C11: a text without a disclosure-kind token (revenue, ARR, bookings,
\* sales) yields no revenue signal whatever the size of its dollar amounts;
\* every signal returned is the type and amount of a match of a listed
\* pattern, whose type is a kind token next to the amount; 'Tiny Startup
\* raised $5 million Series A' and '$50 million Series B funding round' yield
\* none.
C11_NoKindNoSignal ==
    /\ apc # "ready" /\ ~HasKindToken(article.content) => revenue_info = <<>>
    /\ apc = "analyzed" /\ ~HasKindToken(ArticleText(article)) => analysis[1] = FALSE
    /\ apc # "ready" /\ revenue_info # <<>> =>
          LET t == article.content
              ms == MatchesFrom(t, 1)
          IN \E k \in 1..Len(ms) :
                /\ Group(t, ms[k], "type") = revenue_info[1]
                /\ HasKindToken(Group(t, ms[k], "type"))
                /\ SameAmount(ExpectedAmount(t, ms[k]), revenue_info[2])
    /\ apc # "ready" /\ article.content \in {Phrases[12], Phrases[13]} => revenue_info = <<>>
    /\ apc = "analyzed" /\ article.title = <<>> /\ article.content \in {Phrases[12], Phrases[13]} =>
          analysis = <<FALSE, None, <<>>, <<>>>>

\* '$50 million Series B funding round' has been analyzed under threshold
\* 30: its amount is above the threshold and there is no signal
C11_Witness ==
    /\ apc = "analyzed"
    /\ REVENUE_THRESHOLD = 30
    /\ article = [title |-> <<>>, content |-> Phrases[13]]
    /\ Contains(article.content, <<"$","5","0"," ","m","i","l","l","i","o","n">>)
    /\ ~HasKindToken(article.content)
    /\ revenue_info = <<>>
    /\ analysis[1] = FALSE

\* C12: the company attributor tries first the capitalized phrase before
\* raised/secured/announced, then the one before reported/generated/posted,
\* then the one after startup/company: a text with a phrase of more than 2
\* characters before 'raised' is attributed to that phrase, also when
\* 'startup <Y>' occurs in it.
C12_AttributorPriority ==
    apc = "analyzed" /\ analysis[1] =>
        LET text == ArticleText(article)
            m == Search(company_patterns[2], text, 1, TRUE)
        IN m.ok /\ Len(Strip(Group(text, m, "g1"))) > 2 =>
              analysis[4] = Strip(Group(text, m, "g1"))

\* some primary pattern of company_patterns matches in text
PrimaryMatches(text) ==
    \E p \in 1..Len(company_patterns) : Search(company_patterns[p], text, 1, TRUE).ok

\* word is a capital letter followed by one or more small letters
Capitalized(word) ==
    /\ Len(word) >= 2
    /\ word[1] \in UpperSet
    /\ \A i \in 2..Len(word) : word[i] \in LowerSet

\* name is 1 to 3 capitalized words, none of them a stop word
CapitalizedName(name) ==
    LET words == Split(name)
    IN /\ Len(words) \in 1..3
       /\ \A w \in 1..Len(words) : Capitalized(words[w]) /\ words[w] \notin stop_words

article_exists_never(table, url) == FALSE

\* SELECT 1 FROM articles WHERE url = ?
article_exists(table, url) == url \in DOMAIN table

\* INSERT OR IGNORE INTO articles: a row of the same url is kept
save_article_or_ignore(table, a) ==
    [u \in DOMAIN table \cup {a.url} |-> IF u \in DOMAIN table THEN table[u] ELSE a]

\* INSERT OR REPLACE INTO articles: url is UNIQUE, so a row of the same url
\* is replaced
save_article(table, a) ==
    [u \in DOMAIN table \cup {a.url} |-> IF u = a.url THEN a ELSE table[u]]

\* Article(source, title, url, content) with the defaults of the dataclass
Article(source, title, url, content) ==
    [source |-> source, title |-> title, url |-> url, content |-> content,
     revenue_found |-> FALSE, revenue_amount |-> None, revenue_type |-> <<>>,
     company_name |-> <<>>]

\* the article test_database saves
TEST_ARTICLE ==
    [Article("Test Source",
             \* Test Article with Revenue
             <<"T","e","s","t"," ","A","r","t","i","c","l","e"," ","w","i","t","h"," ","R","e","v","e","n","u","e">>,
             TEST_URL,
             \* Test company reported $100 million in revenue.
             <<"T","e","s","t"," ","c","o","m","p","a","n","y"," ","r","e","p","o","r","t","e","d"," ","$","1","0","0"," ","m","i","l","l","i","o","n"," ","i","n"," ","r","e","v","e","n","u","e",".">>)
        EXCEPT !.revenue_found = TRUE, !.revenue_amount = [n |-> 100, d |-> 1],
               !.revenue_type = <<"r","e","v","e","n","u","e">>,
               !.company_name = <<"T","e","s","t"," ","C","o","m","p","a","n","y">>]

(***************************************************************************)
(* WebScraper                                                              *)
(***************************************************************************)
\* bool(value) of a tuple: a tuple with elements is true
Truthy(value) == Len(value) > 0

\* value[key] of a tuple: a key that is a string raises TypeError
TupleGetItem(value, key) ==
    IF key \in STRING THEN [raised |-> TRUE, item |-> <<>>]
    ELSE [raised |-> FALSE, item |-> value[key + 1]]

\* lines 138-142 and 193-197: `if revenue_info:` and the assignments under
\* it; raised tells whether they raised
Annotate(a, info) ==
    IF Truthy(info)
    THEN LET found == [a EXCEPT !.revenue_found = TRUE]
             amount == TupleGetItem(info, "amount")
             type == TupleGetItem(info, "type")
             company == TupleGetItem(info, "company")
         IN IF amount.raised \/ type.raised \/ company.raised
            THEN [raised |-> TRUE, article |-> found]
            ELSE [raised |-> FALSE,
                  article |-> [found EXCEPT !.revenue_amount = amount.item,
                                            !.revenue_type = type.item,
                                            !.company_name = company.item]]
    ELSE [raised |-> FALSE, article |-> a]

\* list[:n]
Take(list, n) == SubSeq(list, 1, IF Len(list) < n THEN Len(list) ELSE n)

RECURSIVE SplitLines(_)
\* content.split('\n')
SplitLines(s) ==
    LET breaks == {i \in 1..Len(s) : s[i] = "\n"}
    IN IF breaks = {} THEN <<s>>
       ELSE LET b == CHOOSE i \in breaks : \A j \in breaks : i <= j
            IN <<SubSeq(s, 1, b - 1)>> \o SplitLines(SubSeq(s, b + 1, Len(s)))

UNTITLED == <<"U","n","t","i","t","l","e","d"," ","A","r","t","i","c","l","e">>

\* the first stripped line longer than 10 and shorter than 200 characters
extract_title_from_content(content) ==
    LET lines == SplitLines(content)
        fits == {i \in 1..Len(lines) : Len(Strip(lines[i])) > 10 /\ Len(Strip(lines[i])) < 200}
    IN IF fits = {} THEN UNTITLED
       ELSE Strip(lines[CHOOSE i \in fits : \A j \in fits : i <= j])

\* a call that returns value, and one that raises exc
Return(value) == [raised |-> FALSE, exc |-> "", value |-> value]
Raise(exc) == [raised |-> TRUE, exc |-> exc, value |-> <<>>]

\* an `except Exception` clause that catches request errors only
CatchesRequestErrors(exc) == exc = "RequestException"

\* a bare `except:` clause, which catches BaseException too
CatchesEverything(exc) == TRUE

\* whether an `except Exception` clause catches exc: CancelledError and
\* KeyboardInterrupt derive from BaseException (python_requires >= 3.8)
Catches(exc) == exc \notin {"CancelledError", "KeyboardInterrupt"}

\* the module with `import newspaper` in place
newspaper_imported_again == TRUE

\* line 20: the import of newspaper is commented out, so the name is unbound
newspaper_imported == FALSE

\* lines 259-261: newspaper.Article(url), download(), parse()
NewspaperStage(pg) ==
    IF ~newspaper_imported THEN Raise("NameError")
    ELSE IF pg.rich_failed THEN Raise("ArticleException")
    ELSE Return(pg.rich_text)

RECURSIVE SelectContent(_, _, _)
\* lines 291-297: the loop over content_selectors from selector k on, with
\* the content found so far
SelectContent(selected, k, found) ==
    IF k > Len(selected) THEN found
    ELSE IF selected[k] = <<>> THEN SelectContent(selected, k + 1, found)
    ELSE IF Len(selected[k][1]) > 200 THEN selected[k][1]
    ELSE SelectContent(selected, k + 1, selected[k][1])

\* lines 271-303: the page is fetched and parsed, the content is selected,
\* falls back to the text of the whole page, and is cut to 10000 characters
RequestsStage(pg) ==
    IF pg.status = "error" THEN Raise("RequestException")
    ELSE IF pg.markup = "error" THEN Raise("ParserError")
    ELSE LET selected == SelectContent(pg.selected, 1, <<>>)
         IN Return(Take(IF selected = <<>> THEN pg.body ELSE selected, 10000))

\* get_article_content on page pg (lines 257-307): the outcome of the call
GetArticleContent(pg) ==
    LET rich == NewspaperStage(pg)
        fetched == RequestsStage(pg)
    IN IF rich.raised /\ ~Catches(rich.exc) THEN rich
       ELSE IF ~rich.raised /\ Len(rich.value) > 200 THEN rich
       ELSE IF fetched.raised /\ Catches(fetched.exc) THEN Return(<<>>)
       ELSE fetched

\* get_article_content(url, source_name) as scrape_rss_feed and
\* scrape_website receive it
get_article_content(url) == GetArticleContent(PAGES[url]).value

Event(p, via, what, url) == [proc |-> p, via |-> via, what |-> what, url |-> url]

\* the source the process is scraping
source_config(p) == NEWS_SOURCES[source_index[p]]

\* a return to scrape_all_sources after which the same source is scraped again
ReturnFromSourceAgain(p, arts) ==
    /\ all_articles' = [all_articles EXCEPT ![p] = @ \o arts]
    /\ articles' = [articles EXCEPT ![p] = <<>>]
    /\ source_articles' = [source_articles EXCEPT ![p] = <<>>]
    /\ pc' = [pc EXCEPT ![p] = "scrape_source"]
    /\ UNCHANGED source_index

\* a return to scrape_all_sources that ends the loop over the sources
ReturnFromSourceEnding(p, arts) ==
    /\ all_articles' = [all_articles EXCEPT ![p] = @ \o arts]
    /\ articles' = [articles EXCEPT ![p] = <<>>]
    /\ source_articles' = [source_articles EXCEPT ![p] = <<>>]
    /\ pc' = [pc EXCEPT ![p] = "done"]
    /\ UNCHANGED source_index

\* scrape_source returns arts to scrape_all_sources (lines 69-74): they are
\* added to all_articles and the loop goes to the next source, or ends
ReturnFromSource(p, arts) ==
    /\ all_articles' = [all_articles EXCEPT ![p] = @ \o arts]
    /\ articles' = [articles EXCEPT ![p] = <<>>]
    /\ source_articles' = [source_articles EXCEPT ![p] = <<>>]
    /\ IF source_index[p] = Len(NEWS_SOURCES)
       THEN pc' = [pc EXCEPT ![p] = "done"] /\ UNCHANGED source_index
       ELSE /\ pc' = [pc EXCEPT ![p] = "scrape_source"]
            /\ source_index' = [source_index EXCEPT ![p] = @ + 1]

\* scrape_rss_feed returns arts to scrape_source (lines 90-97): with fewer
\* than 10 articles scrape_website is called
ReturnFromRss(p, arts) ==
    LET so_far == source_articles[p] \o arts
    IN IF Len(so_far) < 10
       THEN /\ pc' = [pc EXCEPT ![p] = "web_pattern"]
            /\ patterns_left' = [patterns_left EXCEPT ![p] = source_config(p).search_patterns]
            /\ source_articles' = [source_articles EXCEPT ![p] = so_far]
            /\ articles' = [articles EXCEPT ![p] = <<>>]
            /\ UNCHANGED <<source_index, all_articles>>
       ELSE ReturnFromSource(p, so_far) /\ UNCHANGED patterns_left

\* the variables the scrape processes never change
fixed == <<avars, cvars, lvars, svars, feed, page_links, revenue_alerts, notified>>

\* scrape_source begins on the next source (lines 65-69, 82-90): with an
\* rss_feed the feed is parsed and its first 20 entries are looped over,
\* without one scrape_website is called; when feedparser.parse raises, the
\* except clause of line 152 is reached with no entry visited
ScrapeSource(p) ==
    /\ pc[p] = "scrape_source"
    /\ articles' = [articles EXCEPT ![p] = <<>>]
    /\ source_articles' = [source_articles EXCEPT ![p] = <<>>]
    /\ IF source_config(p).rss_feed
       THEN /\ \E parsed \in BOOLEAN :
                  IF parsed
                  THEN /\ pending' = [pending EXCEPT ![p] = Take(feed, 20)]
                       /\ history' = history \cup {Event(p, "source", "started", source_config(p).name)}
                  ELSE /\ pending' = [pending EXCEPT ![p] = <<>>]
                       /\ history' = history \cup {Event(p, "source", "started", source_config(p).name),
                                                    Event(p, "rss", "feed_failed", source_config(p).name)}
            /\ pc' = [pc EXCEPT ![p] = "rss_loop"]
            /\ wire' = [wire EXCEPT ![p] = <<"parse">>]
            /\ UNCHANGED patterns_left
       ELSE /\ pc' = [pc EXCEPT ![p] = "web_pattern"]
            /\ wire' = [wire EXCEPT ![p] = <<>>]
            /\ patterns_left' = [patterns_left EXCEPT ![p] = source_config(p).search_patterns]
            /\ history' = history \cup {Event(p, "source", "started", source_config(p).name)}
            /\ UNCHANGED pending
    /\ UNCHANGED <<fixed, db, source_index, current, all_articles>>

\* scrape_rss_feed, lines 111-123: the next entry is skipped when its link
\* exists in the database or it is older than 7 days
RssEntry(p) ==
    /\ pc[p] = "rss_loop"
    /\ pending[p] # <<>>
    /\ LET entry == Head(pending[p])
       IN /\ pending' = [pending EXCEPT ![p] = Tail(@)]
          /\ IF article_exists(db, entry.link)
             THEN /\ history' = history \cup {Event(p, "rss", "skipped", entry.link)}
                  /\ UNCHANGED <<pc, current>>
             ELSE IF TooOld(entry.published)
             THEN UNCHANGED <<pc, current, history>>
             ELSE /\ pc' = [pc EXCEPT ![p] = "rss_fetch"]
                  /\ current' = [current EXCEPT ![p] = entry]
                  /\ UNCHANGED history
    /\ UNCHANGED <<fixed, db, source_index, patterns_left, articles, source_articles,
                   all_articles, wire>>

\* scrape_rss_feed, lines 125-150: the content is fetched, the article is
\* analyzed, annotated, appended and saved; an exception ends the loop
\* (line 152) and the articles appended so far are returned
RssArticle(p) ==
    /\ pc[p] = "rss_fetch"
    /\ LET entry == current[p]
           content == get_article_content(entry.link)
           a == Article(source_config(p).name, entry.title, entry.link, content)
           r == Annotate(a, analyze_article(a, REVENUE_THRESHOLD))
           seen == history \cup {Event(p, "rss", "fetched", entry.link),
                                 Event(p, "rss", "analyzed", entry.link)}
       IN IF r.raised
          THEN /\ ReturnFromRss(p, articles[p])
               /\ history' = seen \cup {Event(p, "rss", "raised", entry.link)}
               /\ wire' = [wire EXCEPT ![p] = Append(@, "get")]
               /\ UNCHANGED db
          ELSE /\ articles' = [articles EXCEPT ![p] = Append(@, r.article)]
               /\ db' = save_article(db, r.article)
               /\ history' = seen \cup {Event(p, "rss", "saved", entry.link)}
               /\ wire' = [wire EXCEPT ![p] = @ \o <<"get", "sleep">>]
               /\ pc' = [pc EXCEPT ![p] = "rss_loop"]
               /\ UNCHANGED <<source_index, patterns_left, source_articles, all_articles>>
    /\ current' = [current EXCEPT ![p] = <<>>]
    /\ UNCHANGED <<fixed, pending>>

\* scrape_rss_feed returns after the last entry (line 155)
RssReturn(p) ==
    /\ pc[p] = "rss_loop"
    /\ pending[p] = <<>>
    /\ ReturnFromRss(p, articles[p])
    /\ UNCHANGED <<fixed, db, pending, current, history, wire>>

\* scrape_website, lines 164-176: the next search pattern's page is read
\* and its first 10 article links are looped over; when session.get or
\* raise_for_status raises, the except clause of line 204 ends the function
\* and scrape_source returns what it has
WebPattern(p) ==
    /\ pc[p] = "web_pattern"
    /\ patterns_left[p] # <<>>
    /\ patterns_left' = [patterns_left EXCEPT ![p] = Tail(@)]
    /\ wire' = [wire EXCEPT ![p] = Append(@, "get")]
    /\ \E fetched \in BOOLEAN :
          IF fetched
          THEN /\ pending' = [pending EXCEPT ![p] =
                                 [i \in 1..Len(Take(page_links, 10)) |-> [link |-> page_links[i]]]]
               /\ pc' = [pc EXCEPT ![p] = "web_loop"]
               /\ UNCHANGED <<source_index, articles, source_articles, all_articles, history>>
          ELSE /\ ReturnFromSource(p, source_articles[p] \o articles[p])
               /\ history' = history \cup {Event(p, "web", "page_failed", Head(patterns_left[p]))}
               /\ UNCHANGED pending
    /\ UNCHANGED <<fixed, db, current>>

\* scrape_website, lines 176-178 and 166: a link that exists in the
\* database is skipped; after the last link the next pattern is tried
WebLink(p) ==
    /\ pc[p] = "web_loop"
    /\ IF pending[p] = <<>>
       THEN /\ pc' = [pc EXCEPT ![p] = "web_pattern"]
            /\ UNCHANGED <<pending, current, history>>
       ELSE LET link == Head(pending[p]).link
            IN /\ pending' = [pending EXCEPT ![p] = Tail(@)]
               /\ IF article_exists(db, link)
                  THEN /\ history' = history \cup {Event(p, "web", "skipped", link)}
                       /\ UNCHANGED <<pc, current>>
                  ELSE /\ pc' = [pc EXCEPT ![p] = "web_fetch"]
                       /\ current' = [current EXCEPT ![p] = [link |-> link]]
                       /\ UNCHANGED history
    /\ UNCHANGED <<fixed, db, source_index, patterns_left, articles, source_articles,
                   all_articles, wire>>

\* scrape_website, lines 180-202: the content is fetched and, when there is
\* any, the article is analyzed, annotated, appended and saved; an exception
\* ends the function (line 204) and the articles appended so far are
\* returned to scrape_source
WebArticle(p) ==
    /\ pc[p] = "web_fetch"
    /\ LET link == current[p].link
           content == get_article_content(link)
           a == Article(source_config(p).name, extract_title_from_content(content), link, content)
           r == Annotate(a, analyze_article(a, REVENUE_THRESHOLD))
           fetched == history \cup {Event(p, "web", "fetched", link)}
           seen == fetched \cup {Event(p, "web", "analyzed", link)}
       IN IF content = <<>>
          THEN /\ pc' = [pc EXCEPT ![p] = "web_loop"]
               /\ history' = fetched
               /\ wire' = [wire EXCEPT ![p] = @ \o <<"get", "sleep">>]
               /\ UNCHANGED <<db, source_index, patterns_left, articles, source_articles,
                              all_articles>>
          ELSE IF r.raised
          THEN /\ ReturnFromSource(p, source_articles[p] \o articles[p])
               /\ history' = seen \cup {Event(p, "web", "raised", link)}
               /\ wire' = [wire EXCEPT ![p] = Append(@, "get")]
               /\ UNCHANGED <<db, patterns_left>>
          ELSE /\ articles' = [articles EXCEPT ![p] = Append(@, r.article)]
               /\ db' = save_article(db, r.article)
               /\ history' = seen \cup {Event(p, "web", "saved", link)}
               /\ wire' = [wire EXCEPT ![p] = @ \o <<"get", "sleep">>]
               /\ pc' = [pc EXCEPT ![p] = "web_loop"]
               /\ UNCHANGED <<source_index, patterns_left, source_articles, all_articles>>
    /\ current' = [current EXCEPT ![p] = <<>>]
    /\ UNCHANGED <<fixed, pending>>

\* scrape_website returns after the last search pattern (line 207) and
\* scrape_source returns its articles (lines 98-102)
WebReturn(p) ==
    /\ pc[p] = "web_pattern"
    /\ patterns_left[p] = <<>>
    /\ ReturnFromSource(p, source_articles[p] \o articles[p])
    /\ UNCHANGED <<fixed, db, patterns_left, pending, current, history, wire>>

\* test_database: db.save_article(test_article) on the same database file
TestDatabase ==
    /\ db' = save_article(db, TEST_ARTICLE)
    /\ UNCHANGED <<fixed, pc, source_index, patterns_left, pending, current, articles,
                   source_articles, all_articles, history, wire>>

Init ==
    /\ REVENUE_THRESHOLD = 30
    /\ article = [title |-> <<>>, content |-> <<>>]
    /\ apc = "unused"
    /\ revenue_info = <<>>
    /\ analysis = <<>>
    /\ feed \in Feeds
    /\ page_links \in LinkLists
    /\ db = NoArticles
    /\ pc = [p \in Procs |-> "scrape_source"]
    /\ source_index = [p \in Procs |-> 1]
    /\ patterns_left = [p \in Procs |-> <<>>]
    /\ pending = [p \in Procs |-> <<>>]
    /\ current = [p \in Procs |-> <<>>]
    /\ articles = [p \in Procs |-> <<>>]
    /\ source_articles = [p \in Procs |-> <<>>]
    /\ all_articles = [p \in Procs |-> <<>>]
    /\ history = {}
    /\ revenue_alerts = {}
    /\ notified = [p \in Procs |-> {}]
    /\ wire = [p \in Procs |-> <<>>]
    /\ page = NoPage
    /\ cpc = "unused"
    /\ outcome = NoOutcome
    /\ listing = <<>>
    /\ lpc = "unused"
    /\ NoScheduler

Step(p) ==
    \/ ScrapeSource(p)
    \/ RssEntry(p)
    \/ RssArticle(p)
    \/ RssReturn(p)
    \/ WebPattern(p)
    \/ WebLink(p)
    \/ WebArticle(p)
    \/ WebReturn(p)

Next ==
    \/ \E p \in Procs : Step(p)
    \/ TestDatabase

Spec == Init /\ [][Next]_vars

(***************************************************************************)
(* One run of run_scraping_job (RevenueTracker.run_manual_scrape): the     *)
(* scrape of all sources, then the alerts; the run may be cancelled        *)
(***************************************************************************)
\* the process that runs the job
JobProc == "scrape_1"

\* SELECT ... FROM revenue_alerts without the WHERE clause
get_all_alerts(table) == table

\* db.get_pending_alerts()
get_pending_alerts(table) == {alert \in table : ~alert.alert_sent}

\* db.mark_alert_sent(alert.id) for each alert of sent: UPDATE revenue_alerts
\* SET alert_sent = TRUE WHERE id = ?
mark_alert_sent(table, sent) ==
    {IF alert.id \in {s.id : s \in sent} THEN [alert EXCEPT !.alert_sent = TRUE] ELSE alert :
        alert \in table}

\* the job with the alerts marked as sent whether or not the email was sent
SendAlertsMarkingAlways(p) ==
    /\ pc[p] = "done"
    /\ LET threshold_alerts == {alert \in get_pending_alerts(revenue_alerts) :
                                   AtLeast(alert.revenue_amount, REVENUE_THRESHOLD)}
       IN IF threshold_alerts # {}
          THEN \E success \in BOOLEAN :
                  /\ revenue_alerts' = mark_alert_sent(revenue_alerts, threshold_alerts)
                  /\ IF success
                     THEN /\ notified' = [notified EXCEPT ![p] = @ \cup threshold_alerts]
                          /\ history' = history \cup {Event(p, "email", "sent", "")}
                     ELSE /\ history' = history \cup {Event(p, "email", "failed", "")}
                          /\ UNCHANGED notified
          ELSE UNCHANGED <<revenue_alerts, notified, history>>
    /\ pc' = [pc EXCEPT ![p] = "finished"]
    /\ UNCHANGED <<avars, cvars, lvars, svars, feed, page_links, db, source_index, patterns_left, pending,
                   current, articles, source_articles, all_articles, wire>>

\* run_scraping_job after scrape_all_sources has returned (lines 34-61):
\* the pending alerts at or above the threshold are emailed and, when the
\* email was sent, marked as sent
SendAlerts(p) ==
    /\ pc[p] = "done"
    /\ LET threshold_alerts == {alert \in get_pending_alerts(revenue_alerts) :
                                   AtLeast(alert.revenue_amount, REVENUE_THRESHOLD)}
       IN IF threshold_alerts # {}
          THEN \E success \in BOOLEAN :
                  IF success
                  THEN /\ notified' = [notified EXCEPT ![p] = @ \cup threshold_alerts]
                       /\ revenue_alerts' = mark_alert_sent(revenue_alerts, threshold_alerts)
                       /\ history' = history \cup {Event(p, "email", "sent", "")}
                  ELSE /\ history' = history \cup {Event(p, "email", "failed", "")}
                       /\ UNCHANGED <<revenue_alerts, notified>>
          ELSE UNCHANGED <<revenue_alerts, notified, history>>
    /\ pc' = [pc EXCEPT ![p] = "finished"]
    /\ UNCHANGED <<avars, cvars, lvars, svars, feed, page_links, db, source_index, patterns_left, pending,
                   current, articles, source_articles, all_articles, wire>>

\* where a run is suspended: in the await of get_article_content (lines 126,
\* 181) and in asyncio.sleep after an article (lines 150, 202) and after a
\* source (line 74)
SuspensionPoints == {"rss_fetch", "web_fetch", "rss_loop", "web_loop", "scrape_source"}

\* the run is cancelled while suspended: CancelledError is raised at the
\* await.  No except clause of the run catches it, and the run ends with
\* its locals; a clause that caught it would go on as after any error
Cancel(p) ==
    /\ pc[p] \in SuspensionPoints
    /\ history' = history \cup
           {Event(p, "run", "cancelled", IF current[p] = <<>> THEN "" ELSE current[p].link)}
    /\ IF ~Catches("CancelledError")
       THEN /\ pc' = [pc EXCEPT ![p] = "cancelled"]
            /\ articles' = [articles EXCEPT ![p] = <<>>]
            /\ source_articles' = [source_articles EXCEPT ![p] = <<>>]
            /\ all_articles' = [all_articles EXCEPT ![p] = <<>>]
            /\ UNCHANGED <<source_index, patterns_left>>
       ELSE IF pc[p] \in {"rss_fetch", "rss_loop"} THEN ReturnFromRss(p, articles[p])
       ELSE IF pc[p] \in {"web_fetch", "web_loop"}
       THEN ReturnFromSource(p, source_articles[p] \o articles[p]) /\ UNCHANGED patterns_left
       ELSE UNCHANGED <<pc, articles, source_articles, all_articles, source_index, patterns_left>>
    /\ current' = [current EXCEPT ![p] = <<>>]
    /\ UNCHANGED <<fixed, db, pending, wire>>

\* the sizes of the longer feeds the job is run on
FeedSizes == {3, 10, 15}

\* the numbers of old entries that precede a new one in a feed
StaleSizes == {19, 20}

\* the job starts with a new database file or with one that holds the
\* article of test_database, on a short feed or a longer one of new entries
JobInit ==
    /\ REVENUE_THRESHOLD = 30
    /\ article = [title |-> <<>>, content |-> <<>>]
    /\ apc = "unused"
    /\ revenue_info = <<>>
    /\ analysis = <<>>
    /\ feed \in Feeds \cup {FreshFeed(n) : n \in FeedSizes} \cup {StaleFeed(n) : n \in StaleSizes}
    /\ page_links \in LinkLists
    /\ db \in {NoArticles, save_article(NoArticles, TEST_ARTICLE)}
    /\ pc = [p \in Procs |-> IF p = JobProc THEN "scrape_source" ELSE "idle"]
    /\ source_index = [p \in Procs |-> 1]
    /\ patterns_left = [p \in Procs |-> <<>>]
    /\ pending = [p \in Procs |-> <<>>]
    /\ current = [p \in Procs |-> <<>>]
    /\ articles = [p \in Procs |-> <<>>]
    /\ source_articles = [p \in Procs |-> <<>>]
    /\ all_articles = [p \in Procs |-> <<>>]
    /\ history = {}
    /\ revenue_alerts = {}
    /\ notified = [p \in Procs |-> {}]
    /\ wire = [p \in Procs |-> <<>>]
    /\ page = NoPage
    /\ cpc = "unused"
    /\ outcome = NoOutcome
    /\ listing = <<>>
    /\ lpc = "unused"
    /\ NoScheduler

JobNext ==
    \/ Step(JobProc)
    \/ Cancel(JobProc)
    \/ SendAlerts(JobProc)

JobSpec == JobInit /\ [][JobNext]_vars

\* the run has ended: these are the states in which JobNext is not enabled
Ended == pc[JobProc] \in {"finished", "cancelled"}

\* the event loop keeps running the job, and every network call returns or
\* times out: weak fairness of JobNext, WF_vars(JobNext), written out with
\* Ended for ~ENABLED <<JobNext>>_vars
FairJobSpec == JobSpec /\ ([]<>Ended \/ []<><<JobNext>>_vars)

(***************************************************************************)
(* The jobs of one tracker, run one after another, on a revenue_alerts     *)
(* table that a client of the database fills                               *)
(***************************************************************************)
\* the most rows save_revenue_alert inserts
MaxAlerts == 2

\* RevenueAlert(article_url=..., revenue_amount=...), alert_sent left False:
\* amounts of 20 and 50 million
NewAlerts ==
    {[article_url |-> url, revenue_amount |-> amount, alert_sent |-> FALSE] :
        url \in {FEED_LINKS[1]}, amount \in {[n |-> 20, d |-> 1], [n |-> 50, d |-> 1]}}

\* db.save_revenue_alert(alert): the row gets the next id (lastrowid)
SaveRevenueAlert(alert) ==
    /\ Cardinality(revenue_alerts) < MaxAlerts
    /\ revenue_alerts' = revenue_alerts \cup
           {[id |-> Cardinality(revenue_alerts) + 1, article_url |-> alert.article_url,
             revenue_amount |-> alert.revenue_amount, alert_sent |-> alert.alert_sent]}
    /\ UNCHANGED <<avars, cvars, lvars, svars, feed, page_links, db, pc, source_index, patterns_left,
                   pending, current, articles, source_articles, all_articles, history,
                   notified, wire>>

\* schedule.run_pending() or run_manual_scrape starts run_scraping_job when
\* no other job of the tracker is under way
StartJob(p) ==
    /\ pc[p] = "idle"
    /\ \A q \in Procs \ {p} : pc[q] \in {"idle", "finished"}
    /\ pc' = [pc EXCEPT ![p] = "scrape_source"]
    /\ UNCHANGED <<fixed, db, source_index, patterns_left, pending, current, articles,
                   source_articles, all_articles, history, wire>>

\* the tracker starts on a new database; the feed is empty or has one new
\* entry, the listing pages have no link or the link of the test article
AlertInit ==
    /\ REVENUE_THRESHOLD = 30
    /\ article = [title |-> <<>>, content |-> <<>>]
    /\ apc = "unused"
    /\ revenue_info = <<>>
    /\ analysis = <<>>
    /\ feed \in {<<>>, FreshFeed(1)}
    /\ page_links \in {<<>>, <<TEST_URL>>}
    /\ db = NoArticles
    /\ pc = [p \in Procs |-> "idle"]
    /\ source_index = [p \in Procs |-> 1]
    /\ patterns_left = [p \in Procs |-> <<>>]
    /\ pending = [p \in Procs |-> <<>>]
    /\ current = [p \in Procs |-> <<>>]
    /\ articles = [p \in Procs |-> <<>>]
    /\ source_articles = [p \in Procs |-> <<>>]
    /\ all_articles = [p \in Procs |-> <<>>]
    /\ history = {}
    /\ revenue_alerts = {}
    /\ notified = [p \in Procs |-> {}]
    /\ wire = [p \in Procs |-> <<>>]
    /\ page = NoPage
    /\ cpc = "unused"
    /\ outcome = NoOutcome
    /\ listing = <<>>
    /\ lpc = "unused"
    /\ NoScheduler

AlertNext ==
    \/ \E alert \in NewAlerts : SaveRevenueAlert(alert)
    \/ \E p \in Procs : StartJob(p) \/ Step(p) \/ SendAlerts(p)

AlertSpec == AlertInit /\ [][AlertNext]_vars

(***************************************************************************)
(* get_article_content applied to pages whose texts lie on both sides of   *)
(* the 200-character and 10000-character limits                            *)
(***************************************************************************)
\* a text of n characters
Text(n) == [i \in 1..n |-> "x"]

Texts == {Text(0), Text(200), Text(201), Text(10001)}

ContentPages ==
    [rich_failed : BOOLEAN, rich_text : {Text(201), Text(10001)},
     status : {"ok", "error"}, markup : {"ok", "error"},
     selected : [1..Len(content_selectors) -> {<<>>} \cup {<<t>> : t \in Texts}],
     body : Texts]

ContentInit ==
    /\ REVENUE_THRESHOLD = 30
    /\ article = [title |-> <<>>, content |-> <<>>]
    /\ apc = "unused"
    /\ revenue_info = <<>>
    /\ analysis = <<>>
    /\ feed = <<>>
    /\ page_links = <<>>
    /\ db = NoArticles
    /\ pc = [p \in Procs |-> "idle"]
    /\ source_index = [p \in Procs |-> 1]
    /\ patterns_left = [p \in Procs |-> <<>>]
    /\ pending = [p \in Procs |-> <<>>]
    /\ current = [p \in Procs |-> <<>>]
    /\ articles = [p \in Procs |-> <<>>]
    /\ source_articles = [p \in Procs |-> <<>>]
    /\ all_articles = [p \in Procs |-> <<>>]
    /\ history = {}
    /\ revenue_alerts = {}
    /\ notified = [p \in Procs |-> {}]
    /\ wire = [p \in Procs |-> <<>>]
    /\ page \in ContentPages
    /\ cpc = "ready"
    /\ outcome = NoOutcome
    /\ listing = <<>>
    /\ lpc = "unused"
    /\ NoScheduler

\* await self.get_article_content(url, source_name)
CallGetArticleContent ==
    /\ cpc = "ready"
    /\ outcome' = GetArticleContent(page)
    /\ cpc' = "returned"
    /\ UNCHANGED <<avars, pvars, lvars, svars, page>>

ContentNext == CallGetArticleContent

ContentSpec == ContentInit /\ [][ContentNext]_vars

\* the text lines 291-303 arrive at for a page that is fetched and parsed
SelectedText(pg) ==
    LET long == {k \in 1..Len(pg.selected) : pg.selected[k] # <<>> /\ Len(pg.selected[k][1]) > 200}
        present == {k \in 1..Len(pg.selected) : pg.selected[k] # <<>>}
        chosen == IF long # {} THEN pg.selected[CHOOSE k \in long : \A j \in long : k <= j][1]
                  ELSE IF present # {} THEN pg.selected[CHOOSE k \in present : \A j \in present : k >= j][1]
                  ELSE <<>>
    IN IF chosen = <<>> THEN pg.body ELSE chosen

\* C17: get_article_content raises nothing to its caller whatever stages
\* fail; when the rich extraction fails the result is that of the generic
\* fetch stage, the selected text of the fetched page; when the fetch or the
\* parse fails as well the result is the empty string.
C17_ContentNeverRaises ==
    cpc = "returned" =>
        /\ ~outcome.raised
        /\ page.status = "error" \/ page.markup = "error" => outcome.value = <<>>
        /\ page.status = "ok" /\ page.markup = "ok" =>
              LET text == SelectedText(page)
              IN outcome.value = SubSeq(text, 1, IF Len(text) < 10000 THEN Len(text) ELSE 10000)

\* the rich extraction and the page fetch have both failed and "" was
\* returned; on another page the rich extraction has failed and the text of
\* the fetched page was returned
C17_Witness ==
    /\ cpc = "returned"
    /\ NewspaperStage(page).raised
    /\ ~outcome.raised
    /\ \/ page.status = "error" /\ outcome.value = <<>>
       \/ page.status = "ok" /\ page.markup = "ok" /\ outcome.value = Text(201)

\* C18: the text get_article_content returns has at most 10000 characters.
C18_BoundedBody ==
    cpc = "returned" => Len(outcome.value) <= 10000

\* a page whose selected text has 10001 characters has been cut to 10000,
\* the rich extraction having 10001 characters to offer
C18_Witness ==
    /\ cpc = "returned"
    /\ page.status = "ok" /\ page.markup = "ok"
    /\ ~page.rich_failed /\ Len(page.rich_text) = 10001
    /\ Len(SelectedText(page)) = 10001
    /\ outcome = Return(Text(10000))

\* the selectors of page pg whose first element has more than 200 characters
LongSelectors(pg) ==
    {k \in 1..Len(pg.selected) : pg.selected[k] # <<>> /\ Len(pg.selected[k][1]) > 200}

\* C22: for a page that is fetched and parsed the generic stage returns (cut
\* to 10000 characters) the text of the first selector in content_selectors
\* order whose text has more than 200 characters, and the text of the whole
\* page when no selector has more than 200 characters.
C22_SelectorFallback ==
    cpc = "returned" /\ page.status = "ok" /\ page.markup = "ok" =>
        outcome.value =
            Take(IF LongSelectors(page) # {}
                 THEN page.selected[CHOOSE k \in LongSelectors(page) :
                                        \A j \in LongSelectors(page) : k <= j][1]
                 ELSE page.body, 10000)

(***************************************************************************)
(* WebScraper.extract_article_links and is_valid_article_url               *)
(***************************************************************************)
\* the most href attributes the selectors find on a listing page
MaxHrefs == 2

\* source_config['base_url'] of techcrunch
BASE_URL == <<"h","t","t","p","s",":","/","/","t","e","c","h","c","r","u","n","c","h",".","c","o","m">>

\* skip_patterns (lines 243-247)
skip_patterns ==
    {<<"/","t","a","g","/">>,
     <<"/","c","a","t","e","g","o","r","y","/">>,
     <<"/","a","u","t","h","o","r","/">>,
     <<"/","p","a","g","e","/">>,
     <<"/","s","e","a","r","c","h","/">>,
     <<"/","a","r","c","h","i","v","e","/">>,
     <<"/","f","e","e","d","/">>,
     <<"/","r","s","s","/">>,
     <<".","j","p","g">>,
     <<".","p","n","g">>,
     <<".","g","i","f">>,
     <<".","p","d","f">>,
     <<".","c","s","s">>,
     <<".","j","s">>}

\* s.startswith(prefix)
StartsWith(s, prefix) == Len(s) >= Len(prefix) /\ SubSeq(s, 1, Len(prefix)) = prefix

\* urljoin(base, href) for a base without a path: an href with a scheme is
\* kept, one that starts with // takes the scheme of the base, one that
\* starts with / replaces the path, any other is appended to the root
urljoin(base, href) ==
    IF StartsWith(href, <<"h","t","t","p",":","/","/">>) \/ StartsWith(href, <<"h","t","t","p","s",":","/","/">>) THEN href
    ELSE IF StartsWith(href, <<"/","/">>) THEN <<"h","t","t","p","s",":">> \o href
    ELSE IF StartsWith(href, <<"/">>) THEN base \o href
    ELSE base \o <<"/">> \o href

\* a check that compares the patterns with the url as it is written
is_valid_article_url_as_written(url) ==
    \A pattern \in skip_patterns : ~Contains(url, pattern)

\* is_valid_article_url (lines 240-253)
is_valid_article_url(url) ==
    \A pattern \in skip_patterns : ~Contains(Lower(url), pattern)

\* the links list of extract_article_links (lines 225-236) as a set: the
\* non-empty hrefs, joined to the base url, that are valid article urls
ValidLinks(hrefs) ==
    {full_url \in {urljoin(BASE_URL, hrefs[i]) : i \in {k \in 1..Len(hrefs) : hrefs[k] # <<>>}} :
        is_valid_article_url(full_url)}

\* list(set(links)): the distinct links in some order
Orderings(links) ==
    {ls \in [1..Cardinality(links) -> links] :
        \A i, j \in 1..Cardinality(links) : i # j => ls[i] # ls[j]}

\* the href attributes met on listing pages: paths, a relative reference,
\* tag listings, an image, an empty href, a script, another site
Hrefs ==
    {\* /2024/big-round/
     <<"/","2","0","2","4","/","b","i","g","-","r","o","u","n","d","/">>,
     \* story.html
     <<"s","t","o","r","y",".","h","t","m","l">>,
     \* /tag/funding/
     <<"/","t","a","g","/","f","u","n","d","i","n","g","/">>,
     \* /TAG/Funding/
     <<"/","T","A","G","/","F","u","n","d","i","n","g","/">>,
     \* https://techcrunch.com/img/Logo.PNG
     <<"h","t","t","p","s",":","/","/","t","e","c","h","c","r","u","n","c","h",".","c","o","m","/","i","m","g","/","L","o","g","o",".","P","N","G">>,
     \* (empty)
     <<>>,
     \* //cdn.techcrunch.com/app.js
     <<"/","/","c","d","n",".","t","e","c","h","c","r","u","n","c","h",".","c","o","m","/","a","p","p",".","j","s">>,
     \* https://other.com/news/deal
     <<"h","t","t","p","s",":","/","/","o","t","h","e","r",".","c","o","m","/","n","e","w","s","/","d","e","a","l">>}

\* the hrefs of the elements the selectors find, in the order they are met
Listings == UNION {[1..n -> Hrefs] : n \in 0..MaxHrefs}

LinksInit ==
    /\ REVENUE_THRESHOLD = 30
    /\ article = [title |-> <<>>, content |-> <<>>]
    /\ apc = "unused"
    /\ revenue_info = <<>>
    /\ analysis = <<>>
    /\ feed = <<>>
    /\ page_links = <<>>
    /\ db = NoArticles
    /\ pc = [p \in Procs |-> "idle"]
    /\ source_index = [p \in Procs |-> 1]
    /\ patterns_left = [p \in Procs |-> <<>>]
    /\ pending = [p \in Procs |-> <<>>]
    /\ current = [p \in Procs |-> <<>>]
    /\ articles = [p \in Procs |-> <<>>]
    /\ source_articles = [p \in Procs |-> <<>>]
    /\ all_articles = [p \in Procs |-> <<>>]
    /\ history = {}
    /\ revenue_alerts = {}
    /\ notified = [p \in Procs |-> {}]
    /\ wire = [p \in Procs |-> <<>>]
    /\ page = NoPage
    /\ cpc = "unused"
    /\ outcome = NoOutcome
    /\ listing \in Listings
    /\ lpc = "ready"
    /\ NoScheduler

\* article_links = self.extract_article_links(soup, source_config, base_url)
CallExtractArticleLinks ==
    /\ lpc = "ready"
    /\ page_links' \in Orderings(ValidLinks(listing))
    /\ lpc' = "returned"
    /\ UNCHANGED <<avars, cvars, svars, listing, feed, db, pc, source_index, patterns_left, pending,
                   current, articles, source_articles, all_articles, history, revenue_alerts,
                   notified, wire>>

LinksNext == CallExtractArticleLinks

LinksSpec == LinksInit /\ [][LinksNext]_vars

\* C25: no link returned by extract_article_links contains, in any case of
\* letters, a skip pattern or a static-asset extension, and every link is an
\* href of the page made absolute: it starts with http:// or https://, and
\* an href without a scheme is found under the base url.
C25_Denylist ==
    lpc = "returned" =>
        \A i \in 1..Len(page_links) :
            /\ \A pattern \in {<<"/","t","a","g","/">>,
                               <<"/","c","a","t","e","g","o","r","y","/">>,
                               <<"/","a","u","t","h","o","r","/">>,
                               <<"/","p","a","g","e","/">>,
                               <<"/","s","e","a","r","c","h","/">>,
                               <<"/","a","r","c","h","i","v","e","/">>,
                               <<"/","f","e","e","d","/">>,
                               <<"/","r","s","s","/">>,
                               <<".","j","p","g">>,
                               <<".","p","n","g">>,
                               <<".","g","i","f">>,
                               <<".","p","d","f">>,
                               <<".","c","s","s">>,
                               <<".","j","s">>} :
                  ~Contains(Lower(page_links[i]), pattern)
            /\ StartsWith(page_links[i], <<"h","t","t","p",":","/","/">>) \/ StartsWith(page_links[i], <<"h","t","t","p","s",":","/","/">>)
            /\ \E k \in 1..Len(listing) :
                  /\ listing[k] # <<>>
                  /\ \/ page_links[i] = listing[k]
                     \/ /\ ~StartsWith(listing[k], <<"h","t","t","p">>)
                        /\ StartsWith(page_links[i], <<"h","t","t","p","s",":">>)
                        /\ SubSeq(page_links[i], Len(page_links[i]) - Len(listing[k]) + 1,
                                  Len(page_links[i])) = listing[k]

\* a page with a tag listing and a relative reference gave the one link
\* https://techcrunch.com/story.html
C25_Witness ==
    /\ lpc = "returned"
    /\ listing = <<<<"/","t","a","g","/","f","u","n","d","i","n","g","/">>, <<"s","t","o","r","y",".","h","t","m","l">>>>
    /\ page_links = <<<<"h","t","t","p","s",":","/","/","t","e","c","h","c","r","u","n","c","h",".","c","o","m","/","s","t","o","r","y",".","h","t","m","l">>>>


(***************************************************************************)
(* Database.save_article and article_exists called by one client on a new  *)
(* database file                                                           *)
(***************************************************************************)
\* the most save_article calls the client makes
MaxSaves == 3

\* the articles the client saves: three addresses, two contents each
DbArticles ==
    {Article("Test Source", ENTRY_TITLE, url, content) :
        url \in Urls \cup {FEED_LINKS[1]}, content \in {Phrases[1], Phrases[2]}}

DbInit ==
    /\ REVENUE_THRESHOLD = 30
    /\ article = [title |-> <<>>, content |-> <<>>]
    /\ apc = "unused"
    /\ revenue_info = <<>>
    /\ analysis = <<>>
    /\ feed = <<>>
    /\ page_links = <<>>
    /\ db = NoArticles
    /\ pc = [p \in Procs |-> "idle"]
    /\ source_index = [p \in Procs |-> 1]
    /\ patterns_left = [p \in Procs |-> <<>>]
    /\ pending = [p \in Procs |-> <<>>]
    /\ current = [p \in Procs |-> <<>>]
    /\ articles = [p \in Procs |-> <<>>]
    /\ source_articles = [p \in Procs |-> <<>>]
    /\ all_articles = [p \in Procs |-> <<>>]
    /\ history = {}
    /\ revenue_alerts = {}
    /\ notified = [p \in Procs |-> {}]
    /\ wire = [p \in Procs |-> <<>>]
    /\ page = NoPage
    /\ cpc = "unused"
    /\ outcome = NoOutcome
    /\ listing = <<>>
    /\ lpc = "unused"
    /\ NoScheduler

\* articles.append(article); self.db.save_article(article)
SaveArticle(p, a) ==
    /\ Len(articles[p]) < MaxSaves
    /\ articles' = [articles EXCEPT ![p] = Append(@, a)]
    /\ db' = save_article(db, a)
    /\ UNCHANGED <<fixed, pc, source_index, patterns_left, pending, current, source_articles,
                   all_articles, history, wire>>

DbNext == \E a \in DbArticles : SaveArticle(JobProc, a)

DbSpec == DbInit /\ [][DbNext]_vars

\* the addresses the client has saved
SavedUrls == {articles[JobProc][i].url : i \in 1..Len(articles[JobProc])}

\* the article of the client's last save of address u
LastSaved(u) ==
    articles[JobProc][CHOOSE i \in 1..Len(articles[JobProc]) :
                         /\ articles[JobProc][i].url = u
                         /\ \A j \in (i + 1)..Len(articles[JobProc]) : articles[JobProc][j].url # u]

\* C28: after any sequence of save_article calls on a new database the
\* table has one row for each address saved and no other row, the row of an
\* address holds the values of the last save of that address, and
\* article_exists is true of exactly the addresses saved.
C28_OneRowPerUrl ==
    /\ Cardinality(DOMAIN db) = Cardinality(SavedUrls)
    /\ \A u \in Urls \cup FeedUrls : article_exists(db, u) <=> u \in SavedUrls
    /\ \A u \in SavedUrls : db[u] = LastSaved(u)

\* an address was saved twice with different contents and the table holds
\* the second
C28_Witness ==
    /\ Len(articles[JobProc]) = 2
    /\ articles[JobProc][1].url = articles[JobProc][2].url
    /\ articles[JobProc][1].content # articles[JobProc][2].content
    /\ db[articles[JobProc][2].url] = articles[JobProc][2]
    /\ Cardinality(DOMAIN db) = 1

(***************************************************************************)
(* RevenueTracker.start and stop: one caller of start on a tracker that    *)
(* another thread may have started or may stop                             *)
(***************************************************************************)
\* the most calls of start and the most rounds of the main loop
MaxStarts == 2
MaxTicks == 2

\* the jobs setup_schedule registers: the scraping job and the weekly summary
JOBS_PER_SETUP == 2

\* what leaves the other variables alone
others == <<avars, pvars, cvars, lvars>>

\* the tracker is new or was started by another thread, schedule holds no
\* job or those of an earlier setup_schedule, and Config is valid or not
SchedulerInit ==
    /\ REVENUE_THRESHOLD = 30
    /\ article = [title |-> <<>>, content |-> <<>>]
    /\ apc = "unused"
    /\ revenue_info = <<>>
    /\ analysis = <<>>
    /\ feed = <<>>
    /\ page_links = <<>>
    /\ db = NoArticles
    /\ pc = [p \in Procs |-> "idle"]
    /\ source_index = [p \in Procs |-> 1]
    /\ patterns_left = [p \in Procs |-> <<>>]
    /\ pending = [p \in Procs |-> <<>>]
    /\ current = [p \in Procs |-> <<>>]
    /\ articles = [p \in Procs |-> <<>>]
    /\ source_articles = [p \in Procs |-> <<>>]
    /\ all_articles = [p \in Procs |-> <<>>]
    /\ history = {}
    /\ revenue_alerts = {}
    /\ notified = [p \in Procs |-> {}]
    /\ wire = [p \in Procs |-> <<>>]
    /\ page = NoPage
    /\ cpc = "unused"
    /\ outcome = NoOutcome
    /\ listing = <<>>
    /\ lpc = "unused"
    /\ is_running \in BOOLEAN
    /\ jobs \in {0, JOBS_PER_SETUP}
    /\ spc = "idle"
    /\ config_valid \in BOOLEAN
    /\ starts = 0
    /\ ticks = 0
    /\ entered = [is_running |-> FALSE, jobs |-> 0]

\* where the caller of start is before a call and after start has returned
\* or raised
StartReturned ==
    {"idle", "already_running", "config_error", "email_failed", "setup_error",
     "interrupted", "stopped"}

\* a start that registers the jobs and sets is_running whatever is_running is
StartUnguarded ==
    /\ spc \in StartReturned
    /\ starts < MaxStarts
    /\ starts' = starts + 1
    /\ entered' = [is_running |-> is_running, jobs |-> jobs]
    /\ spc' = "validate"
    /\ UNCHANGED <<is_running, jobs, config_valid, ticks, others>>

\* start is called (lines 138-142): on a running tracker it returns
Start ==
    /\ spc \in StartReturned
    /\ starts < MaxStarts
    /\ starts' = starts + 1
    /\ entered' = [is_running |-> is_running, jobs |-> jobs]
    /\ spc' = IF is_running THEN "already_running" ELSE "validate"
    /\ UNCHANGED <<is_running, jobs, config_valid, ticks, others>>

\* lines 144-149: Config.validate_config() raises ValueError when a required
\* field is missing, and start returns
ValidateConfig ==
    /\ spc = "validate"
    /\ spc' = IF config_valid THEN "test_email" ELSE "config_error"
    /\ UNCHANGED <<is_running, jobs, config_valid, starts, ticks, entered, others>>

\* lines 151-154: test_email_connection() gives False and start returns
TestEmailConnection ==
    /\ spc = "test_email"
    /\ \E connected \in BOOLEAN : spc' = IF connected THEN "setup" ELSE "email_failed"
    /\ UNCHANGED <<is_running, jobs, config_valid, starts, ticks, entered, others>>

\* line 157: self.setup_schedule() registers its two jobs (lines 98-136);
\* at(Config.SCRAPE_TIME) raises on a time that is not HH:MM, before the
\* first do() has registered a job, and start raises
SetupSchedule ==
    /\ spc = "setup"
    /\ \E valid_time \in BOOLEAN :
          IF valid_time
          THEN /\ jobs' = jobs + JOBS_PER_SETUP
               /\ spc' = "set_running"
          ELSE /\ spc' = "setup_error"
               /\ UNCHANGED jobs
    /\ UNCHANGED <<is_running, config_valid, starts, ticks, entered, others>>

\* line 159: self.is_running = True
SetRunning ==
    /\ spc = "set_running"
    /\ is_running' = TRUE
    /\ spc' = "started"
    /\ UNCHANGED <<jobs, config_valid, starts, ticks, entered, others>>

\* lines 160-163: the main loop is entered
EnterLoop ==
    /\ spc = "started"
    /\ spc' = "loop"
    /\ UNCHANGED <<is_running, jobs, config_valid, starts, ticks, entered, others>>

\* line 160: KeyboardInterrupt before the try of the main loop; start
\* raises and stop is not called
InterruptBeforeLoop ==
    /\ spc = "started"
    /\ spc' = "interrupted"
    /\ UNCHANGED <<is_running, jobs, config_valid, starts, ticks, entered, others>>

\* lines 164-166: a round of the main loop, schedule.run_pending() and
\* time.sleep(60); the loop ends when is_running is found False
MainLoop ==
    /\ spc = "loop"
    /\ IF is_running
       THEN /\ ticks < MaxTicks
            /\ ticks' = ticks + 1
            /\ spc' = "loop"
       ELSE /\ spc' = "finally"
            /\ UNCHANGED ticks
    /\ UNCHANGED <<is_running, jobs, config_valid, starts, entered, others>>

\* lines 168-171: KeyboardInterrupt or an Exception ends the main loop
LoopRaises ==
    /\ spc = "loop"
    /\ spc' = "finally"
    /\ UNCHANGED <<is_running, jobs, config_valid, starts, ticks, entered, others>>

\* a stop that leaves is_running as it is
StopKeepingRunning ==
    /\ spc = "finally"
    /\ spc' = "stopped"
    /\ UNCHANGED <<is_running, jobs, config_valid, starts, ticks, entered, others>>

\* lines 172-179: finally: self.stop(), and start returns
Stop ==
    /\ spc = "finally"
    /\ is_running' = FALSE
    /\ spc' = "stopped"
    /\ UNCHANGED <<jobs, config_valid, starts, ticks, entered, others>>

\* tracker.stop() called by another thread while the main loop sleeps
StopByOther ==
    /\ spc = "loop"
    /\ is_running
    /\ is_running' = FALSE
    /\ UNCHANGED <<jobs, spc, config_valid, starts, ticks, entered, others>>

SchedulerNext ==
    \/ Start
    \/ ValidateConfig
    \/ TestEmailConnection
    \/ SetupSchedule
    \/ SetRunning
    \/ EnterLoop
    \/ InterruptBeforeLoop
    \/ MainLoop
    \/ LoopRaises
    \/ Stop
    \/ StopByOther

SchedulerSpec == SchedulerInit /\ [][SchedulerNext]_vars

\* C30: a start on a running tracker returns with is_running and the jobs
\* as they were; a start that returns for an invalid configuration or a
\* failed email test leaves is_running False and the jobs as they were;
\* is_running becomes True only after this start has registered its jobs;
\* the main loop is left only through stop, after which is_running is False.
C30_StartStop ==
    /\ [](/\ spc = "already_running" =>
              entered.is_running /\ is_running = entered.is_running /\ jobs = entered.jobs
          /\ spc \in {"config_error", "email_failed", "setup_error"} =>
              ~is_running /\ jobs = entered.jobs
          /\ spc = "stopped" => ~is_running)
    /\ [][/\ ~is_running /\ is_running' => jobs = entered.jobs + JOBS_PER_SETUP /\ jobs' = jobs
          /\ spc = "loop" /\ spc' # "loop" => spc' = "finally"
          /\ spc = "finally" /\ spc' # "finally" => spc' = "stopped" /\ ~is_running']_vars

\* a second start found the tracker stopped by the first one, failed its
\* email test and returned with the jobs of the first start only
C30_Witness ==
    /\ starts = 2
    /\ spc = "email_failed"
    /\ ~entered.is_running
    /\ entered.jobs = JOBS_PER_SETUP
    /\ jobs = JOBS_PER_SETUP
    /\ ~is_running

(***************************************************************************)
(* Properties of the scrape processes                                      *)
(***************************************************************************)
\* the articles process p has returned or is about to return
Returned(p) == all_articles[p] \o source_articles[p] \o articles[p]

\* what analyze_article makes of the article discovered in event e
AnalysisOf(e) ==
    LET content == get_article_content(e.url)
        title == IF e.via = "rss" THEN ENTRY_TITLE ELSE extract_title_from_content(content)
    IN analyze_article([title |-> title, content |-> content], REVENUE_THRESHOLD)

\* C2: every newly discovered article with content whose title and content
\* hold a disclosure at or above the threshold is returned by the scrape of
\* its source with revenue_found = True and the amount, kind and company of
\* the analysis, and is saved by save_article.
C2_CandidateEmission ==
    \A e \in history :
        e.what = "analyzed" /\ get_article_content(e.url) # <<>> /\ AnalysisOf(e)[1] =>
            /\ article_exists(db, e.url)
            /\ db[e.url].revenue_found
            /\ db[e.url].revenue_amount = AnalysisOf(e)[2]
            /\ db[e.url].revenue_type = AnalysisOf(e)[3]
            /\ db[e.url].company_name = AnalysisOf(e)[4]
            /\ \E i \in 1..Len(Returned(e.proc)) :
                  /\ Returned(e.proc)[i].url = e.url
                  /\ Returned(e.proc)[i].revenue_found

\* C3: of two processes that discover the same address, one at most is past
\* the existence check for it at a time, and the address is handed to the
\* analyzer once.
C3_AtomicDedup ==
    /\ \A p, q \in Procs :
          p # q /\ pc[p] \in {"rss_fetch", "web_fetch"} /\ pc[q] \in {"rss_fetch", "web_fetch"}
              => current[p].link # current[q].link
    /\ \A u \in Urls :
          Cardinality({e \in history : e.what = "analyzed" /\ e.url = u}) <= 1

\* C4: a process that visits an entry or link whose address is in the
\* articles table moves on to the next one: it fetches nothing, analyzes
\* nothing, and neither returns nor saves an article.
C4_KnownAddressesDropped ==
    [][\A p \in Procs :
          /\ pc[p] \in {"rss_loop", "web_loop"}
          /\ pending[p] # <<>>
          /\ Head(pending[p]).link \in DOMAIN db
          /\ pending'[p] # pending[p]
          => /\ pc'[p] = pc[p]
             /\ pending'[p] = Tail(pending[p])
             /\ current'[p] = current[p]
             /\ articles'[p] = articles[p]
             /\ db' = db
             /\ \A e \in history' \ history : e.what = "skipped"]_vars

\* an address of the articles table has been skipped as a feed entry and as
\* a crawled link
C4_Witness ==
    \E e1, e2 \in history :
        /\ e1.what = "skipped" /\ e1.via = "rss"
        /\ e2.what = "skipped" /\ e2.via = "web"
        /\ e1.url = e2.url
        /\ e1.url \in DOMAIN db
        /\ ~\E e \in history : e.url = e1.url /\ e.what # "skipped"

(***************************************************************************)
(* Properties of the job                                                   *)
(***************************************************************************)
\* the entries of the feed that scrape_rss_feed visits, are not in the
\* database and are not older than 7 days
Usable(f) ==
    {i \in 1..Len(Take(f, 20)) : ~TooOld(f[i].published) /\ ~article_exists(db, f[i].link)}

\* the process is in scrape_website
Crawling(p) == pc[p] \in {"web_pattern", "web_loop", "web_fetch"}

\* C13: for a source with a feed, scrape_website is invoked only when the
\* feed yields fewer than 10 usable entries: with 15 usable entries it is
\* never invoked.
C13_FeedFirstFallback ==
    \A p \in Procs :
        /\ source_config(p).rss_feed
        /\ Crawling(p)
        /\ ~\E e \in history : e.proc = p /\ e.what = "feed_failed"
        => Cardinality(Usable(feed)) < 10

\* the sources process p has begun to scrape
StartedBy(p) == {e.url : e \in {h \in history : h.proc = p /\ h.what = "started"}}

\* the first k sources of Config.NEWS_SOURCES
SourceNames(k) == {NEWS_SOURCES[i].name : i \in 1..k}

\* C14: whichever feeds and listing pages fail, scrape_all_sources attempts
\* the sources in order and skips none, has attempted every source when it
\* returns, returns the articles its sources appended, and ends in no other
\* way unless it is cancelled.
C14_SourceFailureIsolation ==
    \A p \in Procs :
        /\ pc[p] \notin {"idle", "cancelled"} =>
              StartedBy(p) = SourceNames(IF pc[p] = "scrape_source" THEN source_index[p] - 1
                                         ELSE source_index[p])
        /\ pc[p] \in {"done", "finished"} =>
              /\ StartedBy(p) = SourceNames(Len(NEWS_SOURCES))
              /\ \A e \in history :
                    e.proc = p /\ e.what = "saved" =>
                        \E i \in 1..Len(all_articles[p]) : all_articles[p][i].url = e.url
              /\ \A i \in 1..Len(all_articles[p]) :
                    \E e \in history : e.proc = p /\ e.what = "saved" /\ e.url = all_articles[p][i].url
        /\ pc[p] = "cancelled" => \E e \in history : e.proc = p /\ e.what = "cancelled"

\* the feed of the first source and its listing page have failed, the
\* second source was scraped after that and the run has returned
C14_Witness ==
    /\ pc[JobProc] = "finished"
    /\ Event(JobProc, "rss", "feed_failed", NEWS_SOURCES[1].name) \in history
    /\ Event(JobProc, "web", "page_failed", NEWS_SOURCES[1].search_patterns[1]) \in history
    /\ NEWS_SOURCES[2].name \in StartedBy(JobProc)

\* C15: whatever feeds, listing pages and articles fail, the run of the job
\* comes to its end, and when scrape_all_sources has returned every article
\* that was appended and saved before a failure is in its result.
C15_RunCompletes ==
    /\ <>Ended
    /\ [](pc[JobProc] \in {"done", "finished"} =>
            \A e \in history :
                e.what = "saved" =>
                    \E i \in 1..Len(all_articles[JobProc]) : all_articles[JobProc][i].url = e.url)

\* the job has come to its end after the processing of an article raised
\* and a listing page failed
C15_Witness ==
    /\ pc[JobProc] = "finished"
    /\ \E e \in history : e.what = "raised"
    /\ \E e \in history : e.what = "page_failed"

\* process p is in the loop over feed entries or article links
InLoop(p) == pc[p] \in {"rss_loop", "rss_fetch", "web_loop", "web_fetch"}

\* C16: a failure on one article or one listing page does not end the
\* processing of the rest of the source: while entries or links of the
\* current list remain to be visited the process is still in its loop, and
\* while search patterns remain it is still in scrape_website; an article
\* whose fetch gives nothing is neither saved nor returned.
C16_ArticleFailureLocal ==
    \A p \in Procs :
        pc[p] # "cancelled" =>
            /\ pending[p] # <<>> => InLoop(p)
            /\ patterns_left[p] # <<>> => Crawling(p)
            /\ \A e \in history :
                  e.proc = p /\ e.what = "fetched" /\ get_article_content(e.url) = <<>> =>
                      /\ Event(p, e.via, "saved", e.url) \notin history
                      /\ \A i \in 1..Len(Returned(p)) : Returned(p)[i].url # e.url

\* C19: once the scrape of a run is over, every article the run analysed
\* with a disclosure at or above the threshold has exactly one alert row for
\* its address, and once the job is finished that alert was emailed by the
\* job or is still pending.
C19_AlertsEmitted ==
    \A p \in Procs :
        pc[p] \in {"done", "finished"} =>
            \A e \in history :
                e.proc = p /\ e.what = "analyzed" /\ AnalysisOf(e)[1] =>
                    /\ Cardinality({a \in revenue_alerts : a.article_url = e.url}) = 1
                    /\ pc[p] = "finished" =>
                          \E a \in notified[p] \cup get_pending_alerts(revenue_alerts) :
                              a.article_url = e.url

\* the urls of the rows the database held before the job
InitialRows == {TEST_URL}

\* C20: a run cancelled at a suspension point ends there: the in-flight
\* entry is dropped, nothing is handed to the caller of scrape_all_sources,
\* the url that was in flight has no row in the database, and every row the
\* run wrote belongs to an article whose content was fetched and whose
\* analysis was completed.
C20_CancelNoPartial ==
    \A p \in Procs :
        \A e \in history :
            e.proc = p /\ e.what = "cancelled" =>
                /\ pc[p] = "cancelled"
                /\ current[p] = <<>>
                /\ Returned(p) = <<>>
                /\ e.url # "" => ~article_exists(db, e.url)
                /\ \A u \in DOMAIN db \ InitialRows :
                      \E via \in {"rss", "web"} :
                          /\ Event(p, via, "fetched", u) \in history
                          /\ Event(p, via, "analyzed", u) \in history

\* the job was cancelled during the fetch of an article, after an earlier
\* article of the run had been fetched and analysed
C20_Witness ==
    /\ pc[JobProc] = "cancelled"
    /\ \E e \in history :
          /\ e.proc = JobProc /\ e.what = "cancelled" /\ e.url # ""
          /\ ~article_exists(db, e.url)
          /\ \E f \in history : f.proc = JobProc /\ f.what = "analyzed" /\ f.url # e.url

\* process p fetched, analysed or saved the feed entry of address url
RssProcessed(p, url) ==
    \E what \in {"fetched", "analyzed", "raised", "saved"} : Event(p, "rss", what, url) \in history

\* process p is past the feed of the first source, which was parsed
PastFeed(p) ==
    /\ pc[p] \in {"web_pattern", "web_loop", "web_fetch", "done", "finished"} \/ source_index[p] > 1
    /\ pc[p] # "cancelled"
    /\ Event(p, "source", "started", NEWS_SOURCES[1].name) \in history
    /\ Event(p, "rss", "feed_failed", NEWS_SOURCES[1].name) \notin history
    /\ Event(p, "run", "cancelled", "") \notin history

\* C21: of a feed only the first 20 entries are processed; an entry that
\* carries a date more than 7 days (168 hours) in the past is never fetched,
\* analysed, returned or saved by the feed stage; a first entry without a
\* date whose address is not stored is fetched.
C21_FeedWindow ==
    \A p \in Procs :
        /\ \A i \in 1..Len(feed) :
              i > 20 \/ (feed[i].published # NoDate /\ feed[i].published > 7 * 24) =>
                  /\ ~RssProcessed(p, feed[i].link)
                  /\ \A k \in 1..Len(Returned(p)) : Returned(p)[k].url # feed[i].link
        /\ PastFeed(p) /\ feed # <<>> /\ feed[1].published = NoDate
             /\ ~article_exists(db, feed[1].link) =>
                 Event(p, "rss", "fetched", feed[1].link) \in history

\* process p is still in its call of scrape_source for the first source,
\* the one with a feed
InFirstSource(p) ==
    /\ Event(p, "source", "started", NEWS_SOURCES[1].name) \in history
    /\ Event(p, "source", "started", NEWS_SOURCES[2].name) \notin history

\* C24: within one call of scrape_source an address found both in the feed
\* and on a listing page is one candidate: its content is not fetched by the
\* feed stage and again by the crawl stage of the same call.
C24_DedupWithinCall ==
    \A p \in Procs :
        InFirstSource(p) =>
            \A u \in Urls \cup FeedUrls :
                ~(/\ Event(p, "rss", "fetched", u) \in history
                  /\ Event(p, "web", "fetched", u) \in history)

\* C26: within one call of scrape_source the requests for listing pages
\* and article contents are made one after another with the inter-request
\* delay between them: no such request directly follows another one.
C26_PolitenessDelay ==
    \A p \in Procs :
        \A i \in 1..(Len(wire[p]) - 1) :
            ~(wire[p][i] = "get" /\ wire[p][i + 1] = "get")

\* the pending alerts at or above the threshold
Due == {alert \in revenue_alerts :
           ~alert.alert_sent /\ AtLeast(alert.revenue_amount, REVENUE_THRESHOLD)}

\* the ids of a set of alerts
Ids(alerts) == {alert.id : alert \in alerts}

\* C27: when a job reaches the end of run_scraping_job, either the email
\* with the pending alerts at or above the threshold was sent and exactly
\* these alerts become marked as sent, or nothing was sent and no row of the
\* table changes, so that the alerts of the batch are still pending for the
\* next job; an alert below the threshold is never emailed nor marked, and an
\* alert that is marked as sent is in the email of some job.
C27_MarkAfterDelivery ==
    /\ [][\A p \in Procs :
            pc[p] = "done" /\ pc'[p] = "finished" =>
                \/ /\ notified'[p] = notified[p] \cup Due
                   /\ Ids({alert \in revenue_alerts' : alert.alert_sent}) =
                          Ids({alert \in revenue_alerts : alert.alert_sent}) \cup Ids(Due)
                   /\ Ids(revenue_alerts') = Ids(revenue_alerts)
                \/ /\ notified' = notified
                   /\ revenue_alerts' = revenue_alerts
                   /\ Event(p, "email", "failed", "") \in history']_vars
    /\ [](\A alert \in revenue_alerts :
            /\ alert.alert_sent => \E p \in Procs : alert.id \in Ids(notified[p])
            /\ ~AtLeast(alert.revenue_amount, REVENUE_THRESHOLD) =>
                  /\ ~alert.alert_sent
                  /\ \A p \in Procs : alert.id \notin Ids(notified[p]))

\* the email of the first job failed, the alert stayed pending, and the
\* second job sent it and marked it; the alert below the threshold is
\* pending still
C27_Witness ==
    /\ Event("scrape_1", "email", "failed", "") \in history
    /\ notified["scrape_1"] = {}
    /\ pc["scrape_2"] = "finished"
    /\ \E alert \in revenue_alerts :
          /\ alert.alert_sent
          /\ alert.id \in Ids(notified["scrape_2"])
    /\ \E alert \in revenue_alerts :
          ~alert.alert_sent /\ ~AtLeast(alert.revenue_amount, REVENUE_THRESHOLD)

====
